---------------------------- MODULE Spec2Model ----------------------------
(***************************************************************************)
(* Model of the synthetic-data pipeline: the corpus planner                *)
(* (modules/meta_generator.py), the value library and renderer             *)
(* (modules/content_generator.py), the postprocessor                       *)
(* (modules/postprocessor.py) and the validation engine                    *)
(* (modules/validator.py).                                                 *)
(*                                                                         *)
(* Text is modelled as a sequence of one-character strings, so that the    *)
(* formatting, parsing and pattern operations of the code are computed     *)
(* and not assumed.  Files are records with an "exists" flag.              *)
(***************************************************************************)
EXTENDS Integers, Sequences, FiniteSets, TLC

VARIABLES
    stage,                \* which program is running / what has completed
    config,               \* config.json as loaded
    doc_id,               \* meta_generator.main: doc_id
    sit_doc_counts,       \* meta_generator.main: defaultdict, keys = counted ids
    sit_instance_counts,  \* meta_generator.main: defaultdict of instance sums
    docs,                 \* meta_generator.main: docs (list of doc_meta)
    meta_json,            \* output/meta.json
    mapping_csv,          \* output/mapping_meta.csv
    mapping_xlsx,         \* output/mapping_final.xlsx
    out_files,            \* output/files/: filename -> text
    runs,                 \* how many stage runs have been started
    gen_in,               \* value library: the random draws of one call
    gen_out,              \* value library: the values returned
    report                \* validator: the per-category tallies and issues

vars == <<stage, config, doc_id, sit_doc_counts, sit_instance_counts, docs,
          meta_json, mapping_csv, mapping_xlsx, out_files, runs, gen_in,
          gen_out, report>>

-----------------------------------------------------------------------------
(* Bounds of the model.                                                    *)

\* longest config["sits"] list the planner specification draws
MaxSits == 2
\* largest config["per_sit_count"] the planner specification draws
MaxTarget == 2
\* guard on doc_id (a Python int, unbounded): above every reachable ceiling
DocIdCap == 40
\* the most stage runs (plan, render, postprocess, validate) of one behaviour
MaxRuns == 4

-----------------------------------------------------------------------------
(* Generic helpers on sequences.                                           *)

Min2(a, b) == IF a <= b THEN a ELSE b

Max2(a, b) == IF a >= b THEN a ELSE b

Range(s) == {s[i] : i \in 1..Len(s)}

RECURSIVE Concat(_)
\* "".join(parts): the concatenation of a sequence of sequences
Concat(ss) == IF ss = <<>> THEN <<>> ELSE Head(ss) \o Concat(Tail(ss))

RECURSIVE JoinWith(_, _)
\* sep.join(parts)
JoinWith(sep, ss) ==
    IF ss = <<>> THEN <<>>
    ELSE IF Len(ss) = 1 THEN Head(ss)
    ELSE Head(ss) \o sep \o JoinWith(sep, Tail(ss))

RECURSIVE SumSeq(_)
SumSeq(s) == IF s = <<>> THEN 0 ELSE Head(s) + SumSeq(Tail(s))


-----------------------------------------------------------------------------
(* Numbers as text: str(n), int(s), f"{n:0wd}".                            *)

DigitChars == <<"0", "1", "2", "3", "4", "5", "6", "7", "8", "9">>

\* str(d) for one digit d in 0..9
DigitChar(d) == DigitChars[d + 1]

IsDigitChar(c) == c \in Range(DigitChars)

\* int(c) for one digit character
CharDigit(c) == (CHOOSE i \in 1..10 : DigitChars[i] = c) - 1

RECURSIVE IntToStr(_)
\* str(n) for n >= 0
IntToStr(n) ==
    IF n < 10 THEN <<DigitChar(n)>>
    ELSE IntToStr(n \div 10) \o <<DigitChar(n % 10)>>

RECURSIVE StrToInt(_)
\* int(s) for a string of digits (small enough for a machine integer here)
StrToInt(s) ==
    IF s = <<>> THEN 0
    ELSE 10 * StrToInt(SubSeq(s, 1, Len(s) - 1)) + CharDigit(s[Len(s)])

RECURSIVE ZeroPad(_, _)
\* f"{n:0wd}" applied to the digits s of n: left-pad with "0" to width w
ZeroPad(s, w) == IF Len(s) >= w THEN s ELSE ZeroPad(<<"0">> \o s, w)

-----------------------------------------------------------------------------
(* meta_generator.py: the corpus planner.                                  *)

\* the values random.random() is drawn from, in hundredths (it is < 1.0)
RandomUnit == {0, 25, 50, 75, 99}

\* random.randint(a, b): every integer of a..b
Randint(a, b) == a..b

RECURSIVE sample_from_bucket_at(_, _, _, _)
sample_from_bucket_at(dist_map, r, cum, i) ==
    IF i > Len(dist_map) THEN dist_map[Len(dist_map)][1]   \* fallback: last key
    ELSE IF r <= cum + dist_map[i][2] THEN dist_map[i][1]
    ELSE sample_from_bucket_at(dist_map, r, cum + dist_map[i][2], i + 1)

\* dist_map is the ordered dict as a sequence of <<key, probability>> pairs
\* (probabilities in hundredths), r the value random.random() returned
sample_from_bucket(dist_map, r) == sample_from_bucket_at(dist_map, r, 0, 1)

\* the set of values parse_sit_count_bucket can return for a bucket
parse_sit_count_bucket(bucket) ==
    IF bucket = "1" THEN {1}
    ELSE IF bucket = "2-3" THEN Randint(2, 3)
    ELSE IF bucket = "4-6" THEN Randint(4, 6)
    ELSE IF bucket = ">6" THEN Randint(7, 10)
    ELSE {1}

\* the set of values parse_instance_bucket can return for a bucket
parse_instance_bucket(bucket) ==
    IF bucket = "1" THEN {1}
    ELSE IF bucket = "3-5" THEN Randint(3, 5)
    ELSE IF bucket = "6-10" THEN Randint(6, 10)
    ELSE IF bucket = ">10" THEN Randint(11, 20)
    ELSE {1}

assign_confidence(rules, label, instances) ==
    IF label = "TP"
    THEN IF instances >= rules.high_min_instances THEN "High"
         ELSE IF 3 <= instances /\ instances <= 5 THEN "Medium"
         ELSE "Low"
    ELSE IF instances >= 3 THEN "Medium" ELSE "Low"

\* list({s['id']: s for s in sits}.keys()): each id once, in the order of
\* its first occurrence
DictKeys(ids) ==
    LET first == {i \in 1..Len(ids) : \A j \in 1..(i - 1) : ids[j] # ids[i]}
    IN  [p \in 1..Cardinality(first) |->
            ids[CHOOSE i \in first : Cardinality({j \in first : j <= i}) = p]]

\* sit_by_id.keys()
sit_by_id_keys(cfg) == DictKeys(cfg.sits)

\* max_docs = int(len(sit_ids_cycle) * per_sit_target * 2.5)
max_docs_of(cfg) == (Len(sit_by_id_keys(cfg)) * cfg.per_sit_count * 5) \div 2

\* sit_doc_counts.get(x, 0)
CountGet(counts, x) == IF x \in DOMAIN counts THEN counts[x] ELSE 0

\* all(count >= per_sit_target for count in sit_doc_counts.values())
\*   and len(sit_doc_counts) > 0
all_ok(counts, target) ==
    /\ \A k \in DOMAIN counts : counts[k] >= target
    /\ DOMAIN counts # {}

\* the mutant of StopCondition: the ceiling test is off by one
StopConditionOffByOne(counts, d, cfg) ==
    all_ok(counts, cfg.per_sit_count) \/ d > max_docs_of(cfg)

\* the mutant of StopCondition: the ceiling test is missing
StopConditionNoCeiling(counts, d, cfg) ==
    all_ok(counts, cfg.per_sit_count)

\* if all_ok or doc_id >= max_docs: break
StopCondition(counts, d, cfg) ==
    all_ok(counts, cfg.per_sit_count) \/ d >= max_docs_of(cfg)

\* the place of keys[i] in the stable ascending order by count: after every
\* key with a smaller count and every earlier key with the same count
PlaceByCount(keys, counts, i) ==
    1 + Cardinality({j \in 1..Len(keys) :
                        \/ CountGet(counts, keys[j]) < CountGet(counts, keys[i])
                        \/ /\ CountGet(counts, keys[j]) = CountGet(counts, keys[i])
                           /\ j < i})

\* the mutant of SortedByCount: the keys as they come, not sorted
KeysUnsorted(keys, counts) == keys

\* sorted(keys, key=lambda x: sit_doc_counts.get(x, 0)): stable, ascending
SortedByCount(keys, counts) ==
    [p \in 1..Len(keys) |->
        keys[CHOOSE i \in 1..Len(keys) : PlaceByCount(keys, counts, i) = p]]

\* needed = [sid for sid, c in sit_doc_counts.items() if c < per_sit_target]
\* (computed by the code and never used), the mutant of Candidates
CandidatesNeededOnly(cfg, counts) ==
    SortedByCount(SelectSeq(sit_by_id_keys(cfg),
                            LAMBDA sid : sid \in DOMAIN counts
                                         /\ counts[sid] < cfg.per_sit_count),
                  counts)

\* candidates = sorted(list(sit_by_id.keys()), key=...)
Candidates(cfg, counts) == SortedByCount(sit_by_id_keys(cfg), counts)

\* the mutant of ChosenFrom: the last n_sits ids of cands, the most served
ChosenFromBack(cands, n_sits) ==
    SubSeq(DictKeys(cands),
           Len(DictKeys(cands)) - Min2(n_sits, Len(DictKeys(cands))) + 1,
           Len(DictKeys(cands)))

\* for sid in candidates: if len(chosen) >= n_sits: break
\*                        if sid not in chosen: chosen.append(sid)
\* the first n_sits distinct ids of cands, in their order
ChosenFrom(cands, n_sits) ==
    SubSeq(DictKeys(cands), 1, Min2(n_sits, Len(DictKeys(cands))))

Chosen(cfg, counts, n_sits) == ChosenFrom(Candidates(cfg, counts), n_sits)

\* label = "TP" if random.random() < config.get("tp_ratio", 0.5) else "FP"
LabelOf(cfg, r) == IF r < cfg.tp_ratio THEN "TP" ELSE "FP"

\* the values the instance draw of one assignment can take under cfg
InstanceDraws(cfg) ==
    UNION {parse_instance_bucket(sample_from_bucket(cfg.instance_count_distribution, r))
           : r \in RandomUnit}

\* the values the category-count draw of one document can take under cfg
NSitsDraws(cfg) ==
    UNION {parse_sit_count_bucket(sample_from_bucket(cfg.sit_count_distribution, r))
           : r \in RandomUnit}

\* the labels the draw random.random() < tp_ratio can give under cfg
LabelDraws(cfg) == {LabelOf(cfg, r) : r \in RandomUnit}

\* sit_by_id[sid]["name"]: the display name the catalog gives a category
CatalogName(sid) ==
    CASE sid = "SIT_CCN" -> <<"C", "r", "e", "d", "i", "t", " ", "C", "a", "r", "d", " ", "N", "u", "m", "b", "e", "r">>
      [] sid = "SIT_IBAN" -> <<"I", "B", "A", "N">>
      [] sid = "SIT_IP" -> <<"I", "P", " ", "A", "d", "d", "r", "e", "s", "s">>
      [] OTHER -> <<"I", "d", "e", "n", "t", "i", "f", "i", "e", "r">>

\* sit_by_id[sid].get("tc", []): the test-case tags of a category
CatalogTc(sid) ==
    IF sid = "SIT_IBAN" THEN <<<<"T", "C", "2">>>> ELSE <<<<"T", "C", "1">>>>

\* one entry of sits_meta
SitMeta(cfg, sid, label, instances) ==
    [sit_id |-> sid,
     sit_name |-> CatalogName(sid),
     label |-> label,
     instances |-> instances,
     confidence |-> assign_confidence(cfg.confidence_rules, label, instances),
     tcs |-> CatalogTc(sid)]

\* sits_meta for the chosen ids, labels[i] and ins[i] being the label and the
\* instance count drawn for the i-th chosen id
SitsMeta(cfg, chosen, labels, ins) ==
    [i \in 1..Len(chosen) |-> SitMeta(cfg, chosen[i], labels[i], ins[i])]

\* filename = f"doc_{doc_id:05d}_{fmt}.txt" (the literal parts and the format
\* tag are single tokens, the number is its digits)
FilenameOf(d, fmt) ==
    <<"doc_">> \o ZeroPad(IntToStr(d), 5) \o <<"_", fmt, ".txt">>

\* the values the word-count draw can take under cfg
WordCountDraws(cfg) ==
    UNION {IF r < cfg.size_distribution.main_range_share
           THEN Randint(cfg.size_distribution.main_range_min,
                        cfg.size_distribution.main_range_max)
           ELSE Randint(cfg.size_distribution.min_words,
                        cfg.size_distribution.max_words)
           : r \in RandomUnit}

\* doc_meta (created_at, a clock reading, is not modelled)
DocMeta(d, fmt, wc, sits_meta) ==
    [doc_id |-> d, filename |-> FilenameOf(d, fmt), format |-> fmt,
     word_count_target |-> wc, sits |-> sits_meta]

\* the ids assigned by sits_meta
SitIdsOf(sits_meta) == {sits_meta[i].sit_id : i \in 1..Len(sits_meta)}

\* for s in sits_meta: sit_doc_counts[s["sit_id"]] += 1   (a defaultdict)
AddDocCounts(counts, sits_meta) ==
    [k \in DOMAIN counts \cup SitIdsOf(sits_meta) |->
        CountGet(counts, k)
            + Cardinality({i \in 1..Len(sits_meta) : sits_meta[i].sit_id = k})]

\* the mutant of AddInstanceCounts: every assignment adds 1
AddInstanceCountsByOne(counts, sits_meta) == AddDocCounts(counts, sits_meta)

\* for s in sits_meta: sit_instance_counts[s["sit_id"]] += s["instances"]
AddInstanceCounts(counts, sits_meta) ==
    [k \in DOMAIN counts \cup SitIdsOf(sits_meta) |->
        CountGet(counts, k)
            + SumSeq([i \in 1..Len(sits_meta) |->
                        IF sits_meta[i].sit_id = k THEN sits_meta[i].instances
                        ELSE 0])]

-----------------------------------------------------------------------------
(* The files of output/.                                                   *)

EmptyCounts == [k \in {} |-> 0]

\* output/meta.json before any run
NoMetaJson ==
    [exists |-> FALSE, docs |-> <<>>, sit_doc_counts |-> EmptyCounts,
     sit_instance_counts |-> EmptyCounts]

\* output/mapping_meta.csv (and output/mapping_final.xlsx) before any run
NoMappingCsv == [exists |-> FALSE, cols |-> <<>>, rows |-> <<>>]

\* output/files/ before any run
NoFiles == [f \in {} |-> <<>>]

\* the validator has not run
NoReport ==
    [done |-> FALSE, docs |-> EmptyCounts, tp_docs |-> EmptyCounts,
     fp_flagged |-> EmptyCounts, total_instances |-> EmptyCounts,
     issues |-> <<>>]

\* the header row meta_generator.main writes
MetaCsvCols ==
    <<"doc_id", "filename", "format", "word_count_target", "sit_ids",
      "labels", "instances", "confidences", "tcs">>

\* ";".join(cells), cells being one cell text per entry of d["sits"]
JoinSits(cells) == JoinWith(<<";">>, cells)

\* the tags of all categories
AllTags == {<<"T", "C", "1">>, <<"T", "C", "2">>}

\* the orders in which iterating a set of tags can yield them: one order of
\* all tags per process (string hashing is randomised per process)
TagOrders ==
    {o \in [1..Cardinality(AllTags) -> AllTags] : Range(o) = AllTags}

\* {tc for s in sits for tc in s["tcs"]}
TagsOf(sits_meta) ==
    UNION {Range(sits_meta[i].tcs) : i \in 1..Len(sits_meta)}

\* ";".join({tc for s in sits for tc in s["tcs"]}) under the iteration order
JoinTags(sits_meta, order) ==
    JoinWith(<<";">>, SelectSeq(order, LAMBDA t : t \in TagsOf(sits_meta)))

\* the cells of one document that both the planner and the renderer write
PlanCells(d, order) ==
    [doc_id |-> IntToStr(d.doc_id),
     filename |-> d.filename,
     format |-> <<d.format>>,
     word_count_target |-> IntToStr(d.word_count_target),
     sit_ids |-> JoinSits([i \in 1..Len(d.sits) |-> <<d.sits[i].sit_id>>]),
     labels |-> JoinSits([i \in 1..Len(d.sits) |-> <<d.sits[i].label>>]),
     instances |->
         JoinSits([i \in 1..Len(d.sits) |-> IntToStr(d.sits[i].instances)]),
     confidences |->
         JoinSits([i \in 1..Len(d.sits) |-> <<d.sits[i].confidence>>]),
     tcs |-> JoinTags(d.sits, order)]

\* writer.writerow([...]) for one document, as a row of the csv
MetaCsvRow(d, order) == [c \in Range(MetaCsvCols) |-> PlanCells(d, order)[c]]

-----------------------------------------------------------------------------
(* meta_generator.main as steps: start, one loop iteration, break, save.   *)

OtherFilesUnchanged ==
    UNCHANGED <<mapping_xlsx, out_files, gen_in, gen_out, report>>

\* lines 157-166: the csv written for the documents ds
PlanCsv(ds, order) ==
    [exists |-> TRUE, cols |-> MetaCsvCols,
     rows |-> [i \in 1..Len(ds) |-> MetaCsvRow(ds[i], order)]]

\* the program is not running: the last run has ended, one way or another
AtShell ==
    stage \in {"idle", "plan_done", "rendered", "render_skipped",
               "render_failed", "postprocessed", "postprocess_failed",
               "validated", "validate_failed"}

\* lines 63-85: load the config, empty counters, doc_id = 0
PlanStart ==
    /\ AtShell
    /\ runs < MaxRuns
    /\ runs' = runs + 1
    /\ stage' = "plan_loop"
    /\ doc_id' = 0
    /\ sit_doc_counts' = EmptyCounts
    /\ sit_instance_counts' = EmptyCounts
    /\ docs' = <<>>
    /\ UNCHANGED <<config, meta_json, mapping_csv>>
    /\ OtherFilesUnchanged

\* lines 87-150: one pass of the while loop that does not break
PlanIterate ==
    /\ stage = "plan_loop"
    /\ ~StopCondition(sit_doc_counts, doc_id, config)
    /\ doc_id < DocIdCap
    /\ \E fmt \in Range(config.formats), n_sits \in NSitsDraws(config),
          wc \in WordCountDraws(config) :
         \E chosen \in {Chosen(config, sit_doc_counts, n_sits)} :
           \E labels \in [1..Len(chosen) -> LabelDraws(config)],
              ins \in [1..Len(chosen) -> InstanceDraws(config)] :
             \E sits_meta \in {SitsMeta(config, chosen, labels, ins)} :
                /\ doc_id' = doc_id + 1
                /\ docs' = Append(docs,
                                   DocMeta(doc_id + 1, fmt, wc, sits_meta))
                /\ sit_doc_counts' = AddDocCounts(sit_doc_counts, sits_meta)
                /\ sit_instance_counts' =
                       AddInstanceCounts(sit_instance_counts, sits_meta)
    /\ UNCHANGED <<stage, config, meta_json, mapping_csv, runs>>
    /\ OtherFilesUnchanged

\* lines 89-91: the stop condition holds, break
PlanBreak ==
    /\ stage = "plan_loop"
    /\ StopCondition(sit_doc_counts, doc_id, config)
    /\ stage' = "plan_exit"
    /\ UNCHANGED <<config, doc_id, sit_doc_counts, sit_instance_counts, docs,
                   meta_json, mapping_csv, runs>>
    /\ OtherFilesUnchanged

\* lines 152-166: write meta.json and mapping_meta.csv (both overwritten)
PlanSave ==
    /\ stage = "plan_exit"
    /\ stage' = "plan_done"
    /\ meta_json' = [exists |-> TRUE, docs |-> docs,
                     sit_doc_counts |-> sit_doc_counts,
                     sit_instance_counts |-> sit_instance_counts]
    /\ \E order \in TagOrders : mapping_csv' = PlanCsv(docs, order)
    /\ UNCHANGED <<config, doc_id, sit_doc_counts, sit_instance_counts, docs,
                   runs>>
    /\ OtherFilesUnchanged

-----------------------------------------------------------------------------
(* The planner on its own: every catalog of at most MaxSits entries (an id  *)
(* may be listed twice), every target up to MaxTarget.                      *)

\* the ids the catalogs are drawn from
SitIdPool == <<"SIT_CCN", "SIT_IBAN", "SIT_IP", "SIT_SSN", "SIT_ABA">>

CatalogIds == {SitIdPool[i] : i \in 1..Min2(MaxSits, Len(SitIdPool))}

Catalogs == UNION {[1..n -> CatalogIds] : n \in 0..MaxSits}

\* a config.json of the usual shape: all four buckets of each distribution;
\* exists tells whether the file is there
BaseConfig ==
    [exists |-> TRUE,
     sits |-> <<>>,
     per_sit_count |-> 1,
     tp_ratio |-> 50,
     formats |-> <<"document">>,
     random_seed |-> <<42>>,
     size_distribution |->
         [main_range_share |-> 65, main_range_min |-> 24,
          main_range_max |-> 24, min_words |-> 24, max_words |-> 24],
     sit_count_distribution |->
         << <<"1", 40>>, <<"2-3", 30>>, <<"4-6", 20>>, <<">6", 10>> >>,
     instance_count_distribution |->
         << <<"1", 40>>, <<"3-5", 30>>, <<"6-10", 20>>, <<">10", 10>> >>,
     confidence_rules |-> [high_min_instances |-> 6]]

\* the instance draw is always 1 and the label draw always falls the same way:
\* every catalog and every target, the category-count draws free
FixedDrawConfigs ==
    {[BaseConfig EXCEPT !.sits = c, !.per_sit_count = t, !.tp_ratio = r,
                        !.instance_count_distribution = << <<"1", 100>> >>]
     : c \in Catalogs, t \in 0..MaxTarget, r \in {0, 100}}

\* both labels and the instance counts 1, 3, 4, 5 on small catalogs
MixedDrawConfigs ==
    {[BaseConfig EXCEPT !.sits = ct[1], !.per_sit_count = ct[2],
                        !.instance_count_distribution =
                            << <<"1", 50>>, <<"3-5", 50>> >>]
     : ct \in {<< <<SitIdPool[1]>>, 1 >>, << <<SitIdPool[1]>>, 2 >>,
               << <<SitIdPool[1], SitIdPool[2]>>, 1 >>,
               << <<SitIdPool[2], SitIdPool[1], SitIdPool[2]>>, 1 >>}}

PlannerConfigs == FixedDrawConfigs \cup MixedDrawConfigs

IdleInit ==
    /\ stage = "idle"
    /\ doc_id = 0
    /\ sit_doc_counts = EmptyCounts
    /\ sit_instance_counts = EmptyCounts
    /\ docs = <<>>
    /\ meta_json = NoMetaJson
    /\ mapping_csv = NoMappingCsv
    /\ mapping_xlsx = NoMappingCsv
    /\ out_files = NoFiles
    /\ gen_in = <<>>
    /\ gen_out = <<>>
    /\ report = NoReport

\* the planner is run once
InitPlanner == IdleInit /\ runs = MaxRuns - 1 /\ config \in PlannerConfigs

NextPlanner == PlanStart \/ PlanIterate \/ PlanBreak \/ PlanSave

SpecPlanner == InitPlanner /\ [][NextPlanner]_vars

\* the program runs on: a step that can be taken is taken
SpecPlannerFair == SpecPlanner /\ WF_vars(NextPlanner)

-----------------------------------------------------------------------------
(* Properties of the planner.                                              *)

\* the ids of the catalog and the per-category target of the running config
CatalogKeys == Range(sit_by_id_keys(config))

Target == config.per_sit_count

\* the guard doc_id < DocIdCap never stops an iteration the code would run
DocIdCapNotBinding ==
    (stage = "plan_loop" /\ ~StopCondition(sit_doc_counts, doc_id, config))
        => doc_id < DocIdCap

\* C1 (as claimed): with N >= 1 categories and target T >= 1, when the loop
\* has exited, every category of the catalog has a document count >= T, or
\* the number of documents created equals the ceiling int(N * T * 2.5).
C1_ExitCoversCatalogOrCeiling ==
    (stage = "plan_exit" /\ CatalogKeys # {} /\ Target >= 1)
        => \/ \A sid \in CatalogKeys : CountGet(sit_doc_counts, sid) >= Target
           \/ Len(docs) = max_docs_of(config)

\* C2: the planner loop always terminates: from every point of the loop the
\* break is reached, for every catalog (the empty one included), every
\* target and every sequence of draws.
C2_LoopTerminates == (stage = "plan_loop") ~> (stage = "plan_exit")

\* the loop has run and has ended although a category is below its target
C2_Witness ==
    /\ stage = "plan_exit"
    /\ Len(docs) >= 1
    /\ \E sid \in CatalogKeys : CountGet(sit_doc_counts, sid) < Target

\* C3: at every point of the planner loop the number of Document Plans
\* emitted so far is at most the safety ceiling int(N * T * 2.5).
C3_DocsWithinCeiling == Len(docs) <= max_docs_of(config)

\* plans have been emitted and the loop is still running
C3_Witness ==
    /\ stage = "plan_loop"
    /\ Len(docs) >= 3
    /\ ~StopCondition(sit_doc_counts, doc_id, config)

\* no id occurs twice in the assignments of a plan
NoDuplicateSit(sits_meta) ==
    \A i, j \in 1..Len(sits_meta) :
        sits_meta[i].sit_id = sits_meta[j].sit_id => i = j

\* C8: for a non-empty catalog, every Document Plan emitted has at least one
\* SIT Assignment and never lists the same category id twice.
C8_PlansNonEmptyNoDuplicates ==
    config.sits # <<>>
        => \A i \in 1..Len(docs) :
              /\ Len(docs[i].sits) >= 1
              /\ NoDuplicateSit(docs[i].sits)

\* the catalog lists an id twice and a plan with two assignments was emitted
C8_Witness ==
    /\ Len(config.sits) > Len(sit_by_id_keys(config))
    /\ \E i \in 1..Len(docs) : Len(docs[i].sits) >= 2

-----------------------------------------------------------------------------
(* content_generator: the checksum generators. A text is the sequence of    *)
(* its characters. gen_in is the call (its arguments and the values the     *)
(* random draws return), gen_out the strings returned so far.               *)

\* string.digits
Digits == 0..9

\* sum(digits_of(d * 2)) for a digit d
DoubledDigitSum(d) == ((2 * d) \div 10) + ((2 * d) % 10)

\* the digits of a text of digit characters
digits_of(s) == [i \in 1..Len(s) |-> CharDigit(s[i])]

\* digits[-1::-2]: the last entry and every second one before it
odd_digits(digits) ==
    [k \in 1..((Len(digits) + 1) \div 2) |-> digits[Len(digits) - 2 * (k - 1)]]

\* digits[-2::-2]: the entry before the last and every second one before it
even_digits(digits) ==
    [k \in 1..(Len(digits) \div 2) |-> digits[Len(digits) - 1 - 2 * (k - 1)]]

luhn_checksum_for(body_digits) ==
    LET digits == digits_of(body_digits)
        evens == even_digits(digits)
        total == SumSeq(odd_digits(digits))
                    + SumSeq([k \in 1..Len(evens) |-> DoubledDigitSum(evens[k])])
    IN  (10 - (total % 10)) % 10

\* [full[i:i+4] for i in range(0, len(full), 4)]
FourCharParts(full) ==
    [k \in 1..((Len(full) + 3) \div 4) |->
        SubSeq(full, 4 * (k - 1) + 1, Min2(4 * k, Len(full)))]

\* "0000 0000 0000 0000"
CcnPlaceholder ==
    <<"0", "0", "0", "0", " ", "0", "0", "0", "0", " ",
      "0", "0", "0", "0", " ", "0", "0", "0", "0">>

\* prefix is the prefix drawn, rest the digit characters drawn after it
generate_ccn(tp, prefix, rest) ==
    IF ~tp THEN CcnPlaceholder
    ELSE LET body == prefix \o rest
             check == luhn_checksum_for(body)
             full == body \o IntToStr(check)
         IN  JoinWith(<<" ">>, FourCharParts(full))

\* the prefixes random.choice can return at line 41
CcnPrefixes ==
    {<<"4">>, <<"5", "1">>, <<"5", "2">>, <<"5", "3">>, <<"5", "4">>,
     <<"5", "5">>}

\* length_without_check
CcnBodyLength == 15

\* the digit strings of length n that are one digit repeated, with at most
\* one position holding another digit
DigitDraws(n) ==
    {[i \in 1..n |-> DigitChar(IF i = p THEN d ELSE f)] :
        f \in Digits, p \in 1..n, d \in Digits}

\* the calls of generate_ccn
CcnCalls ==
    {[tp |-> TRUE, prefix |-> px, rest |-> r] :
        px \in CcnPrefixes, r \in DigitDraws(CcnBodyLength - 1)}
    \cup {[tp |-> TRUE, prefix |-> px, rest |-> r] :
        px \in CcnPrefixes \ {<<"4">>}, r \in DigitDraws(CcnBodyLength - 2)}
    \cup {[tp |-> FALSE, prefix |-> <<>>, rest |-> <<>>]}

\* nothing but gen_out and stage changes when a generator is called
GeneratorFrame ==
    UNCHANGED <<config, doc_id, sit_doc_counts, sit_instance_counts, docs,
                meta_json, mapping_csv, mapping_xlsx, out_files, runs, gen_in,
                report>>

\* everything but gen_in, before a generator is called
GeneratorIdle ==
    /\ stage = "idle"
    /\ config = BaseConfig
    /\ doc_id = 0
    /\ sit_doc_counts = EmptyCounts
    /\ sit_instance_counts = EmptyCounts
    /\ docs = <<>>
    /\ meta_json = NoMetaJson
    /\ mapping_csv = NoMappingCsv
    /\ mapping_xlsx = NoMappingCsv
    /\ out_files = NoFiles
    /\ runs = 0
    /\ gen_out = <<>>
    /\ report = NoReport

CallGenerateCcn ==
    /\ stage = "idle"
    /\ stage' = "returned"
    /\ gen_out' = Append(gen_out,
                         generate_ccn(gen_in.tp, gen_in.prefix, gen_in.rest))
    /\ GeneratorFrame

InitCCN == GeneratorIdle /\ gen_in \in CcnCalls

SpecCCN == InitCCN /\ [][CallGenerateCcn]_vars

\* the digit characters of a text, in order
DigitsOnly(s) == SelectSeq(s, IsDigitChar)

\* the check digit the standard mod-10 rule gives for the digits before it:
\* the digit next to the check digit is doubled, then every second one
StandardLuhnCheckDigit(body_digits) ==
    LET digits == digits_of(body_digits)
        doubled == odd_digits(digits)
        plain == even_digits(digits)
        total == SumSeq(plain)
                    + SumSeq([k \in 1..Len(doubled) |-> DoubledDigitSum(doubled[k])])
    IN  (10 - (total % 10)) % 10

\* four groups of four digit characters separated by single spaces
FourGroupsOfFour(s) ==
    /\ Len(s) = 19
    /\ \A i \in 1..19 : IF i % 5 = 0 THEN s[i] = " " ELSE IsDigitChar(s[i])

\* C4 (as claimed): every value generate_ccn(tp=True) returns is 16 digits
\* in four space-separated groups of 4, and its last digit is the standard
\* mod-10 (Luhn) check digit of the 15 digits before it.
C4_CcnPassesStandardLuhn ==
    (stage = "returned" /\ gen_in.tp)
        => /\ FourGroupsOfFour(gen_out[1])
           /\ CharDigit(DigitsOnly(gen_out[1])[16])
                = StandardLuhnCheckDigit(SubSeq(DigitsOnly(gen_out[1]), 1, 15))

-----------------------------------------------------------------------------
(* content_generator: generate_iban and its mod-97 checksum.               *)

\* the capital letters, in the order of their ordinals
Letters ==
    <<"A", "B", "C", "D", "E", "F", "G", "H", "I", "J", "K", "L", "M",
      "N", "O", "P", "Q", "R", "S", "T", "U", "V", "W", "X", "Y", "Z">>

\* ord(ch.upper()) - 55 for a capital letter: A is 10, Z is 35
LetterValue(ch) == 9 + (CHOOSE i \in 1..Len(Letters) : Letters[i] = ch)

iban_replace_chars(s) ==
    Concat([i \in 1..Len(s) |->
               IF IsDigitChar(s[i]) THEN <<s[i]>>
               ELSE IntToStr(LetterValue(s[i]))])

\* int(block) % m for a text of digit characters of any length
RECURSIVE IntStrMod(_, _)
IntStrMod(block, m) ==
    IF block = <<>> THEN 0
    ELSE (IntStrMod(SubSeq(block, 1, Len(block) - 1), m) * 10
            + CharDigit(block[Len(block)])) % m

\* block = str(remainder) + numeric[i:i+9], without the carried remainder
IbanBlockNoCarry(remainder, chunk) == chunk

\* block = str(remainder) + numeric[i:i+9]
IbanBlock(remainder, chunk) == IntToStr(remainder) \o chunk

\* the remainder after the blocks starting at positions 0, 9, ... below i
RECURSIVE IbanRemainderBefore(_, _)
IbanRemainderBefore(numeric, i) ==
    IF i <= 0 THEN 0
    ELSE IntStrMod(IbanBlock(IbanRemainderBefore(numeric, i - 9),
                             SubSeq(numeric, i - 8, Min2(i, Len(numeric)))),
                   97)

\* the remainder when the loop over range(0, len(numeric), 9) has ended
IbanRemainder(numeric) ==
    IbanRemainderBefore(numeric, 9 * ((Len(numeric) + 8) \div 9))

iban_calc_checksum(country_code, bban) ==
    LET rearranged == bban \o country_code \o <<"0", "0">>
        numeric == iban_replace_chars(rearranged)
        checksum == 98 - IbanRemainder(numeric)
    IN  ZeroPad(IntToStr(checksum), 2)

\* "XX00 XXXX XXXX XXXX XXXX"
IbanPlaceholder ==
    <<"X", "X", "0", "0", " ", "X", "X", "X", "X", " ", "X", "X", "X", "X",
      " ", "X", "X", "X", "X", " ", "X", "X", "X", "X">>

generate_iban(tp, country_code, bban) ==
    IF ~tp THEN IbanPlaceholder
    ELSE country_code \o iban_calc_checksum(country_code, bban) \o bban

\* the length of the random digit body
BbanLength == 16

\* the default country_code, the only one the pipeline passes
DefaultCountryCode == <<"G", "B">>

\* the calls of generate_iban
IbanCalls ==
    {[tp |-> TRUE, country_code |-> DefaultCountryCode, bban |-> b] :
        b \in DigitDraws(BbanLength)}
    \cup {[tp |-> FALSE, country_code |-> DefaultCountryCode, bban |-> <<>>]}

CallGenerateIban ==
    /\ stage = "idle"
    /\ stage' = "returned"
    /\ gen_out' = Append(gen_out, generate_iban(gen_in.tp, gen_in.country_code,
                                                gen_in.bban))
    /\ GeneratorFrame

InitIBAN == GeneratorIdle /\ gen_in \in IbanCalls

SpecIBAN == InitIBAN /\ [][CallGenerateIban]_vars

\* the value with its first four characters moved to the end, letters
\* replaced by their numbers
IbanRearrangedNumeric(iban) ==
    iban_replace_chars(SubSeq(iban, 5, Len(iban)) \o SubSeq(iban, 1, 4))

\* C5: every value generate_iban(tp=True) returns round-trips under the
\* mod-97 verification (first four characters moved to the end, letters
\* mapped to ordinal - 55, the number mod 97 is 1); the 9-digit chunked
\* reduction gives the same remainder as reducing the whole numeric string
\* mod 97; and the checksum is exactly two digits.
C5_IbanRoundTrips ==
    (stage = "returned" /\ gen_in.tp)
        => LET numeric == iban_replace_chars(gen_in.bban \o gen_in.country_code
                                               \o <<"0", "0">>)
               iban == gen_out[1]
           IN  /\ IntStrMod(IbanRearrangedNumeric(iban), 97) = 1
               /\ IbanRemainder(numeric) = IntStrMod(numeric, 97)
               /\ Len(iban) = Len(gen_in.country_code) + 2 + Len(gen_in.bban)
               /\ IsDigitChar(iban[3]) /\ IsDigitChar(iban[4])
               /\ SubSeq(iban, 5, Len(iban)) = gen_in.bban

\* a value was returned whose checksum needed the zero padding, from a body
\* whose chunks differ
C5_Witness ==
    /\ stage = "returned"
    /\ gen_in.tp
    /\ gen_out[1][3] = "0"
    /\ \E i \in 1..Len(gen_in.bban) : gen_in.bban[i] # gen_in.bban[1]

-----------------------------------------------------------------------------
(* validator.is_placeholder, on texts as character sequences.               *)

LowerLetters ==
    <<"a", "b", "c", "d", "e", "f", "g", "h", "i", "j", "k", "l", "m",
      "n", "o", "p", "q", "r", "s", "t", "u", "v", "w", "x", "y", "z">>

IsUpperChar(c) == c \in Range(Letters)

IsLowerChar(c) == c \in Range(LowerLetters)

\* ch.isalnum() for the characters of the texts of this pipeline
IsAlnum(c) == IsDigitChar(c) \/ IsUpperChar(c) \/ IsLowerChar(c)

\* the whitespace str.strip() and \s take away
IsSpaceChar(c) == c \in {" ", "\t", "\n"}

\* ch.lower()
LowerChar(c) ==
    IF IsUpperChar(c)
    THEN LowerLetters[CHOOSE i \in 1..Len(Letters) : Letters[i] = c]
    ELSE c

\* ch.upper()
UpperChar(c) ==
    IF IsLowerChar(c)
    THEN Letters[CHOOSE i \in 1..Len(LowerLetters) : LowerLetters[i] = c]
    ELSE c

\* s.lower()
Lower(s) == [i \in 1..Len(s) |-> LowerChar(s[i])]

\* s.upper()
Upper(s) == [i \in 1..Len(s) |-> UpperChar(s[i])]

\* s.strip()
Strip(s) ==
    LET kept == {i \in 1..Len(s) : ~IsSpaceChar(s[i])}
    IN  IF kept = {} THEN <<>>
        ELSE SubSeq(s, CHOOSE i \in kept : \A j \in kept : i <= j,
                       CHOOSE i \in kept : \A j \in kept : j <= i)

\* ph in s
Contains(s, ph) ==
    \E i \in 1..(Len(s) - Len(ph) + 1) : SubSeq(s, i, i + Len(ph) - 1) = ph

\* the list placeholders of is_placeholder
placeholders ==
    <<<<"x", "x", "x">>,
      <<"x", "x", "x", "x">>,
      <<"p", "l", "a", "c", "e", "h", "o", "l", "d", "e", "r">>,
      <<"r", "e", "d", "a", "c", "t", "e", "d">>,
      <<"e", "x", "a", "m", "p", "l", "e">>,
      <<"s", "a", "m", "p", "l", "e">>,
      <<"p", "l", "e", "a", "s", "e">>,
      <<"s", "h", "a", "r", "e">>,
      <<"c", "o", "n", "f", "i", "d", "e", "n", "t", "i", "a", "l">>,
      <<"d", "o", "c", "u", "m", "e", "n", "t">>,
      <<"s", "u", "b", "j", "e", "c", "t">>,
      <<"g", "e", "n", "e", "r", "a", "t", "e", "d">>,
      <<"s", "i", "g", "=", "x", "x", "x", "x", "x">>,
      <<"f", "a", "k", "e">>,
      <<"n", "/", "a">>,
      <<"n", "u", "m", "b", "e", "r">>,
      <<"a", "c", "c", "o", "u", "n", "t">>>>

\* re.match(r'^[xX\*\-_]{3,}$', s)
IsMaskRun(s) ==
    /\ Len(s) >= 3
    /\ \A i \in 1..Len(s) : s[i] \in {"x", "X", "*", "-", "_"}

\* re.match(r"^[a-z0-9._-]{1,6}$", s, flags=re.I)
IsShortToken(s) ==
    /\ Len(s) \in 1..6
    /\ \A i \in 1..Len(s) : IsAlnum(s[i]) \/ s[i] \in {".", "_", "-"}

\* re.search(r'[ilIoO0]{6,}', s)
HasAmbiguousRun(s) ==
    \E i \in 1..(Len(s) - 5) :
        \A j \in i..(i + 5) : s[j] \in {"i", "l", "I", "o", "O", "0"}

\* sum(1 for ch in s if not ch.isalnum())
NonAlnumCount(s) == Cardinality({i \in 1..Len(s) : ~IsAlnum(s[i])})

is_placeholder(value) ==
    LET s == Strip(value)
        low == Lower(s)
        digits_only == SelectSeq(s, IsDigitChar)
        token == SelectSeq(s, LAMBDA c : ~IsSpaceChar(c))
    IN  \/ s = <<>>
        \/ \E k \in 1..Len(placeholders) : Contains(low, placeholders[k])
        \/ /\ Contains(low, <<"s", "i", "g", "=">>)
           /\ \/ Contains(low, <<"x", "x", "x", "x", "x">>)
              \/ Contains(low, <<"f", "a", "k", "e">>)
        \/ IsMaskRun(s)
        \/ Cardinality(Range(s)) = 1 /\ Len(s) >= 6
        \/ /\ digits_only # <<>>
           /\ \/ Range(digits_only) = {"0"}
              \/ Len(digits_only) < 4 /\ Len(digits_only) < Len(s)
        \/ Len(token) <= 2
        \/ IsShortToken(s)
        \/ NonAlnumCount(s) * 10 > 6 * Max2(1, Len(s))
        \/ HasAmbiguousRun(s)

-----------------------------------------------------------------------------
(* content_generator: the other generators and generate_sit_value. rnd is   *)
(* the record of what the random draws of one call return: rnd.digits the   *)
(* digit characters, rnd.upper the capital letters, rnd.mixed the letters   *)
(* of either case, rnd.units the fractions (in hundredths) that decide the  *)
(* integer draws, rnd.prefix the card prefix, rnd.fault whether the         *)
(* generator called raises an exception.                                    *)

\* the value random.randint(a, b) returns when the draw falls at u/100
RandintAt(a, b, u) == a + (u * (b - a + 1)) \div 100

\* "".join(random.choice(string.digits) for _ in range(n)), from position k
DrawnDigits(rnd, k, n) == SubSeq(rnd.digits, k, k + n - 1)

generate_ssn(tp, rnd) ==
    IF ~tp THEN <<"X", "X", "X", "-", "X", "X", "-", "X", "X", "X", "X">>
    ELSE ZeroPad(IntToStr(RandintAt(100, 899, rnd.units[1])), 3) \o <<"-">>
            \o ZeroPad(IntToStr(RandintAt(10, 99, rnd.units[2])), 2) \o <<"-">>
            \o ZeroPad(IntToStr(RandintAt(1000, 9999, rnd.units[3])), 4)

\* fake.ipv4() is taken to return any dotted quad
generate_ip(tp, rnd) ==
    IF ~tp THEN <<"9", "9", "9", ".", "9", "9", "9", ".", "9", "9", "9", ".",
               "9", "9", "9">>
    ELSE JoinWith(<<".">>,
                  [i \in 1..4 |-> IntToStr(RandintAt(0, 255, rnd.units[i]))])

generate_aba(tp, rnd) ==
    IF ~tp THEN <<"0", "0", "0", "0", "0", "0", "0", "0", "0">>
    ELSE DrawnDigits(rnd, 1, 9)

generate_dea(tp, rnd) ==
    IF ~tp THEN <<"Z", "Z", "0", "0", "0", "0", "0", "0", "0">>
    ELSE SubSeq(rnd.upper, 1, 2) \o DrawnDigits(rnd, 1, 7)

generate_passport(tp, rnd) ==
    IF ~tp THEN <<"X", "X", "X", "X", "X", "X", "X", "X">>
    ELSE SubSeq(rnd.upper, 1, 1) \o DrawnDigits(rnd, 1, 7)

generate_bank_account(tp, min_len, max_len, rnd) ==
    IF ~tp THEN <<"0", "0", "0", "0", "0", "0", "0">>
    ELSE DrawnDigits(rnd, 1, RandintAt(min_len, max_len, rnd.units[1]))

\* allowed = [c for c in string.ascii_uppercase if c not in "DFIQUV"]
NinoAllowed ==
    SelectSeq(Letters, LAMBDA c : c \notin {"D", "F", "I", "Q", "U", "V"})

\* random.choice(seq) when the draw falls at u/100
ChoiceAt(seq, u) == seq[1 + (u * Len(seq)) \div 100]

generate_nino(tp, rnd) ==
    IF ~tp THEN <<"Q", "Q", "0", "0", "0", "0", "0", "0", "C">>
    ELSE <<ChoiceAt(NinoAllowed, rnd.units[1]),
           ChoiceAt(NinoAllowed, rnd.units[2])>>
            \o DrawnDigits(rnd, 1, 6)
            \o <<ChoiceAt(<<"A", "B", "C", "D">>, rnd.units[3])>>

generate_cpf(tp, rnd) ==
    IF ~tp THEN <<"0", "0", "0", ".", "0", "0", "0", ".", "0", "0", "0", "-",
               "0", "0">>
    ELSE DrawnDigits(rnd, 1, 3) \o <<".">> \o DrawnDigits(rnd, 4, 3) \o <<".">>
            \o DrawnDigits(rnd, 7, 3) \o <<"-">> \o DrawnDigits(rnd, 10, 2)

\* sit_name.replace(' ', '_').upper()
NameToken(sit_name) ==
    Upper([i \in 1..Len(sit_name) |->
              IF sit_name[i] = " " THEN "_" ELSE sit_name[i]])

\* the characters of the category ids no generator is registered for
UnregisteredIdText ==
    [SIT_EMAIL |-> <<"S", "I", "T", "_", "E", "M", "A", "I", "L">>,
     SIT_PHONE_US |-> <<"S", "I", "T", "_", "P", "H", "O", "N", "E", "_",
                      "U", "S">>]

\* the characters of the category ids a generator is registered for
RegisteredIdText ==
    [SIT_CCN |->
        <<"S", "I", "T", "_", "C", "C", "N">>,
     SIT_SSN |->
        <<"S", "I", "T", "_", "S", "S", "N">>,
     SIT_ITIN |->
        <<"S", "I", "T", "_", "I", "T", "I", "N">>,
     SIT_PASSPORT_US_UK |->
        <<"S", "I", "T", "_", "P", "A", "S", "S", "P", "O", "R", "T", "_", "U", "S", "_", "U", "K">>,
     SIT_BANK_US |->
        <<"S", "I", "T", "_", "B", "A", "N", "K", "_", "U", "S">>,
     SIT_DRIVER_US |->
        <<"S", "I", "T", "_", "D", "R", "I", "V", "E", "R", "_", "U", "S">>,
     SIT_ABA |->
        <<"S", "I", "T", "_", "A", "B", "A">>,
     SIT_DEA |->
        <<"S", "I", "T", "_", "D", "E", "A">>,
     SIT_EU_DEBIT |->
        <<"S", "I", "T", "_", "E", "U", "_", "D", "E", "B", "I", "T">>,
     SIT_ICD10 |->
        <<"S", "I", "T", "_", "I", "C", "D", "1", "0">>,
     SIT_ICD9 |->
        <<"S", "I", "T", "_", "I", "C", "D", "9">>,
     SIT_SWIFT |->
        <<"S", "I", "T", "_", "S", "W", "I", "F", "T">>,
     SIT_CAN_SIN |->
        <<"S", "I", "T", "_", "C", "A", "N", "_", "S", "I", "N">>,
     SIT_CAN_BANK |->
        <<"S", "I", "T", "_", "C", "A", "N", "_", "B", "A", "N", "K">>,
     SIT_AUS_TFN |->
        <<"S", "I", "T", "_", "A", "U", "S", "_", "T", "F", "N">>,
     SIT_CAN_PHIN |->
        <<"S", "I", "T", "_", "C", "A", "N", "_", "P", "H", "I", "N">>,
     SIT_CAN_DRIVER |->
        <<"S", "I", "T", "_", "C", "A", "N", "_", "D", "R", "I", "V", "E", "R">>,
     SIT_CAN_HEALTH |->
        <<"S", "I", "T", "_", "C", "A", "N", "_", "H", "E", "A", "L", "T", "H">>,
     SIT_AUS_DRIVER |->
        <<"S", "I", "T", "_", "A", "U", "S", "_", "D", "R", "I", "V", "E", "R">>,
     SIT_AUS_PASSPORT |->
        <<"S", "I", "T", "_", "A", "U", "S", "_", "P", "A", "S", "S", "P", "O", "R", "T">>,
     SIT_AUS_BANK |->
        <<"S", "I", "T", "_", "A", "U", "S", "_", "B", "A", "N", "K">>,
     SIT_AZURE_SAS |->
        <<"S", "I", "T", "_", "A", "Z", "U", "R", "E", "_", "S", "A", "S">>,
     SIT_CAN_PASSPORT |->
        <<"S", "I", "T", "_", "C", "A", "N", "_", "P", "A", "S", "S", "P", "O", "R", "T">>,
     SIT_AUS_MEDACC |->
        <<"S", "I", "T", "_", "A", "U", "S", "_", "M", "E", "D", "A", "C", "C">>,
     SIT_IBAN |->
        <<"S", "I", "T", "_", "I", "B", "A", "N">>,
     SIT_BR_CPF |->
        <<"S", "I", "T", "_", "B", "R", "_", "C", "P", "F">>,
     SIT_BR_RG |->
        <<"S", "I", "T", "_", "B", "R", "_", "R", "G">>,
     SIT_UK_NINO |->
        <<"S", "I", "T", "_", "U", "K", "_", "N", "I", "N", "O">>,
     SIT_FR_INSEE |->
        <<"S", "I", "T", "_", "F", "R", "_", "I", "N", "S", "E", "E">>,
     SIT_IP |->
        <<"S", "I", "T", "_", "I", "P">>]

\* the characters of a category id
IdText(sit_id) ==
    IF sit_id \in DOMAIN UnregisteredIdText THEN UnregisteredIdText[sit_id]
    ELSE RegisteredIdText[sit_id]

gen_generic_placeholder(sit_name, tp, sit_id) ==
    IF tp THEN <<"<">> \o NameToken(sit_name) \o <<"_", "V", "A", "L", "U", "E", ">">>
    ELSE IF sit_id # "" THEN <<"R", "E", "D", "A", "C", "T", "E", "D", "_">>
                                \o IdText(sit_id)
    ELSE <<"R", "E", "D", "A", "C", "T", "E", "D", "_">> \o NameToken(sit_name)

\* the keys of SIT_GENERATORS
RegisteredIds ==
    {"SIT_CCN", "SIT_SSN", "SIT_ITIN", "SIT_PASSPORT_US_UK", "SIT_BANK_US",
     "SIT_DRIVER_US", "SIT_ABA", "SIT_DEA", "SIT_EU_DEBIT", "SIT_ICD10",
     "SIT_ICD9", "SIT_SWIFT", "SIT_CAN_SIN", "SIT_CAN_BANK", "SIT_AUS_TFN",
     "SIT_CAN_PHIN", "SIT_CAN_DRIVER", "SIT_CAN_HEALTH", "SIT_AUS_DRIVER",
     "SIT_AUS_PASSPORT", "SIT_AUS_BANK", "SIT_AZURE_SAS", "SIT_CAN_PASSPORT",
     "SIT_AUS_MEDACC", "SIT_IBAN", "SIT_BR_CPF", "SIT_BR_RG", "SIT_UK_NINO",
     "SIT_FR_INSEE", "SIT_IP"}

\* SIT_GENERATORS[sit_id](tp)
SIT_GENERATORS(sit_id, tp, rnd) ==
    CASE sit_id \in {"SIT_CCN", "SIT_EU_DEBIT"} ->
            generate_ccn(tp, rnd.prefix,
                         DrawnDigits(rnd, 1, CcnBodyLength - Len(rnd.prefix)))
      [] sit_id \in {"SIT_SSN", "SIT_ITIN"} -> generate_ssn(tp, rnd)
      [] sit_id \in {"SIT_PASSPORT_US_UK", "SIT_CAN_PASSPORT"} ->
            generate_passport(tp, rnd)
      [] sit_id = "SIT_BANK_US" -> generate_bank_account(tp, 6, 17, rnd)
      [] sit_id = "SIT_DRIVER_US" ->
            IF tp THEN SubSeq(rnd.mixed, 1, 1) \o DrawnDigits(rnd, 1, 6)
                          \o SubSeq(rnd.mixed, 2, 2)
            ELSE <<"X", "X", "X", "X", "X", "X", "X">>
      [] sit_id = "SIT_ABA" -> generate_aba(tp, rnd)
      [] sit_id = "SIT_DEA" -> generate_dea(tp, rnd)
      [] sit_id = "SIT_ICD10" ->
            IF tp THEN <<"A", "#", "#">> ELSE <<"X", "0", "0">>
      [] sit_id = "SIT_ICD9" ->
            IF tp THEN IntToStr(RandintAt(100, 999, rnd.units[1])) \o <<".">>
                          \o IntToStr(RandintAt(0, 99, rnd.units[2]))
            ELSE <<"0", "0", "0">>
      [] sit_id = "SIT_SWIFT" ->
            IF tp THEN SubSeq(rnd.upper, 1, 8) ELSE <<"X", "X", "X", "X", "X", "X">>
      [] sit_id = "SIT_CAN_SIN" ->
            IF tp THEN IntToStr(RandintAt(100, 999, rnd.units[1])) \o <<"-">>
                          \o IntToStr(RandintAt(100, 999, rnd.units[2])) \o <<"-">>
                          \o IntToStr(RandintAt(100, 999, rnd.units[3]))
            ELSE <<"0", "0", "0", "-", "0", "0", "0", "-", "0", "0", "0">>
      [] sit_id = "SIT_CAN_BANK" -> generate_bank_account(tp, 7, 12, rnd)
      [] sit_id = "SIT_AUS_TFN" ->
            IF tp THEN DrawnDigits(rnd, 1, 8) ELSE <<"0", "0", "0", "0", "0", "0", "0", "0">>
      [] sit_id \in {"SIT_CAN_PHIN", "SIT_CAN_HEALTH"} ->
            IF tp THEN DrawnDigits(rnd, 1, 9)
            ELSE <<"0", "0", "0", "0", "0", "0", "0", "0", "0">>
      [] sit_id = "SIT_CAN_DRIVER" ->
            IF tp THEN SubSeq(rnd.mixed, 1, 2) \o DrawnDigits(rnd, 1, 6)
            ELSE <<"X", "X", "X", "X", "X", "X">>
      [] sit_id = "SIT_AUS_DRIVER" ->
            IF tp THEN SubSeq(rnd.mixed, 1, 2) \o <<"-">> \o DrawnDigits(rnd, 1, 6)
            ELSE <<"X", "X", "X", "X", "-", "0", "0", "0", "0", "0", "0">>
      [] sit_id = "SIT_AUS_PASSPORT" ->
            IF tp THEN SubSeq(rnd.upper, 1, 1) \o DrawnDigits(rnd, 1, 7)
            ELSE <<"A", "0", "0", "0", "0", "0", "0", "0">>
      [] sit_id = "SIT_AUS_BANK" -> generate_bank_account(tp, 6, 9, rnd)
      [] sit_id = "SIT_AZURE_SAS" ->
            IF tp THEN <<"s", "i", "g", "=", "F", "A", "K", "E", "_", "S",
                       "I", "G">>
            ELSE <<"s", "i", "g", "=", "X", "X", "X", "X", "X">>
      [] sit_id = "SIT_AUS_MEDACC" -> generate_bank_account(tp, 6, 12, rnd)
      [] sit_id = "SIT_IBAN" ->
            generate_iban(tp, DefaultCountryCode, DrawnDigits(rnd, 1, BbanLength))
      [] sit_id = "SIT_BR_CPF" -> generate_cpf(tp, rnd)
      [] sit_id = "SIT_BR_RG" ->
            IF tp THEN IntToStr(RandintAt(10, 99, rnd.units[1])) \o <<".">>
                          \o IntToStr(RandintAt(100, 999, rnd.units[2])) \o <<".">>
                          \o IntToStr(RandintAt(100, 999, rnd.units[3])) \o <<"-">>
                          \o IntToStr(RandintAt(0, 9, rnd.units[4]))
            ELSE <<"0", "0", ".", "0", "0", "0", ".", "0", "0", "0", "-",
                  "0">>
      [] sit_id = "SIT_UK_NINO" -> generate_nino(tp, rnd)
      [] sit_id = "SIT_FR_INSEE" ->
            IF tp THEN DrawnDigits(rnd, 1, 13)
            ELSE <<"0", "0", "0", "0", "0", "0", "0", "0", "0", "0", "0",
                  "0", "0">>
      [] sit_id = "SIT_IP" -> generate_ip(tp, rnd)

\* generate_sit_value without the try: the exception of the generator leaves
\* the function
generate_sit_value_unguarded(sit_id, sit_name, label, rnd) ==
    IF sit_id \in RegisteredIds
    THEN (IF rnd.fault THEN <<"Traceback">>
          ELSE SIT_GENERATORS(sit_id, label = "TP", rnd))
    ELSE gen_generic_placeholder(sit_name, label = "TP", sit_id)

\* rnd.fault: the registered generator raises during the call
generate_sit_value(sit_id, sit_name, label, rnd) ==
    IF sit_id \in RegisteredIds /\ ~rnd.fault
    THEN SIT_GENERATORS(sit_id, label = "TP", rnd)
    ELSE gen_generic_placeholder(sit_name, label = "TP", sit_id)

\* the most calls of generate_sit_value made for one assignment
MaxCalls == 2

\* what the draws of one call can return
RndDraws ==
    {[digits |-> d.digits, prefix |-> d.prefix, upper |-> l.upper,
      mixed |-> l.mixed, units |-> u, fault |-> FALSE] :
        d \in {[digits |-> [i \in 1..17 |-> "0"], prefix |-> <<"4">>],
               [digits |-> [i \in 1..17 |-> "7"], prefix |-> <<"5", "5">>],
               [digits |-> [i \in 1..17 |-> DigitChar(i % 10)],
                prefix |-> <<"4">>]},
        l \in {[upper |-> <<"A", "B", "C", "D", "E", "F", "G", "H">>,
                mixed |-> <<"a", "B">>],
               [upper |-> <<"X", "X", "X", "X", "X", "X", "X", "X">>,
                mixed |-> <<"X", "x">>]},
        u \in {<<0, 0, 0, 0>>, <<99, 99, 99, 99>>, <<50, 25, 75, 10>>}}

\* the display names the catalog gives a category
SampleNames ==
    {<<"E", "m", "a", "i", "l", " ", "A", "d", "d", "r", "e", "s", "s">>,
     <<"u", "s", " ", "p", "h", "o", "n", "e">>}

\* the calls of generate_sit_value: every registered id and ids that are not
SitValueCalls ==
    {[sit_id |-> sid, sit_name |-> nm, label |-> lbl] :
        sid \in RegisteredIds \cup DOMAIN UnregisteredIdText,
        nm \in SampleNames, lbl \in {"TP", "FP"}}

CallGenerateSitValue ==
    /\ stage \in {"idle", "returned"}
    /\ Len(gen_out) < MaxCalls
    /\ stage' = "returned"
    /\ \E rnd \in RndDraws :
          gen_out' = Append(gen_out,
                            generate_sit_value(gen_in.sit_id, gen_in.sit_name,
                                               gen_in.label, rnd))
    /\ GeneratorFrame

InitSitValue == GeneratorIdle /\ gen_in \in SitValueCalls

SpecSitValue == InitSitValue /\ [][CallGenerateSitValue]_vars

\* C6 (as claimed): for every category id, registered or not, the value
\* generate_sit_value returns for label FP is the same string on every call
\* and is_placeholder classifies it as placeholder-like (so the validator
\* never counts it as a leaked match).
C6_FpValueFixedAndPlaceholder ==
    gen_in.label = "FP"
        => \A i \in 1..Len(gen_out) :
              /\ gen_out[i] = gen_out[1]
              /\ is_placeholder(gen_out[i])

-----------------------------------------------------------------------------
(* The mapping ledger in memory: a pandas frame. A cell holds a text, an    *)
(* integer, a float (of integral value here) or NaN; a column has a dtype.  *)

StrVal(s) == [t |-> "str", s |-> s]

IntVal(n) == [t |-> "int", n |-> n]

FloatVal(n) == [t |-> "float", n |-> n]

NaN == [t |-> "nan"]

\* pd.DataFrame(columns=[...]) / a frame without rows
EmptyFrame(cols) ==
    [cols |-> cols, dtype |-> [c \in Range(cols) |-> "object"],
     index |-> <<>>, rows |-> <<>>]

\* pd.read_csv raises EmptyDataError for a file without a header line
CanReadCsv(csv) == csv.exists /\ csv.cols # <<>>

\* pd.read_csv(path, dtype=str): every column is text, an empty cell is NaN,
\* the index is 0, 1, ...
ReadCsv(csv) ==
    [cols |-> csv.cols,
     dtype |-> [c \in Range(csv.cols) |-> "object"],
     index |-> [i \in 1..Len(csv.rows) |-> IntVal(i - 1)],
     rows |-> [i \in 1..Len(csv.rows) |->
                 [c \in Range(csv.cols) |->
                     IF csv.rows[i][c] = <<>> THEN NaN
                     ELSE StrVal(csv.rows[i][c])]]]

\* one cell as to_csv writes it: NaN as the empty cell, a float with ".0"
CsvCell(v) ==
    CASE v.t = "nan" -> <<>>
      [] v.t = "str" -> v.s
      [] v.t = "int" -> IntToStr(v.n)
      [] v.t = "float" -> IntToStr(v.n) \o <<".", "0">>

\* df.to_csv(path, index=False)
ToCsv(df) ==
    [exists |-> TRUE, cols |-> df.cols,
     rows |-> [i \in 1..Len(df.rows) |->
                 [c \in Range(df.cols) |-> CsvCell(df.rows[i][c])]]]

\* the value a column of the given dtype stores for v: a float64 column
\* stores an integer as a float
Coerce(v, dtype) ==
    IF dtype = "float64" /\ v.t = "int" THEN FloatVal(v.n) ELSE v

\* the dtype of a new column that holds v in one row and NaN in the others
\* (infer_fill_value): a number makes it float64
EnlargedDtype(v) == IF v.t \in {"int", "float"} THEN "float64" ELSE "object"

\* str(value) of a doc_id cell: df['doc_id'].astype(str)
AsStr(v) ==
    CASE v.t = "str" -> v
      [] v.t = "nan" -> StrVal(<<"n", "a", "n">>)
      [] OTHER -> StrVal(CsvCell(v))

\* df.set_index('doc_id', drop=False) after df['doc_id'].astype(str)
SetIndexDocId(df) ==
    LET rows == [i \in 1..Len(df.rows) |->
                    [df.rows[i] EXCEPT !["doc_id"] = AsStr(@)]]
    IN  [df EXCEPT !.rows = rows,
                   !.index = [i \in 1..Len(rows) |-> rows[i]["doc_id"]]]

\* df.at[did, col] = v: every row labelled did gets v in col; a column the
\* frame does not have is added at the end, NaN in the other rows
SetAt(df, did, col, v) ==
    IF col \in Range(df.cols)
    THEN [df EXCEPT !.rows =
            [i \in 1..Len(df.rows) |->
                IF df.index[i] = did
                THEN [df.rows[i] EXCEPT ![col] = Coerce(v, df.dtype[col])]
                ELSE df.rows[i]]]
    ELSE LET dt == EnlargedDtype(v)
         IN  [cols |-> Append(df.cols, col),
              dtype |-> [c \in Range(df.cols) \cup {col} |->
                            IF c = col THEN dt ELSE df.dtype[c]],
              index |-> df.index,
              rows |-> [i \in 1..Len(df.rows) |->
                          [c \in Range(df.cols) \cup {col} |->
                              IF c # col THEN df.rows[i][c]
                              ELSE IF df.index[i] = did THEN Coerce(v, dt)
                              ELSE NaN]]]

\* for col in r.index: df.at[did, col] = r[col], for the columns from the
\* k-th on
RECURSIVE SetRowAt(_, _, _, _, _)
SetRowAt(df, did, rcols, r, k) ==
    IF k > Len(rcols) THEN df
    ELSE SetRowAt(SetAt(df, did, rcols[k], r[rcols[k]]), did, rcols, r, k + 1)

\* pd.concat([df, pd.DataFrame([r])], ignore_index=False): r becomes the last
\* row under the label it has in df_new; columns df lacks are added at the
\* end (a numeric one is float64, the rows above holding NaN), columns r
\* lacks are NaN in the new row
ConcatRow(df, rcols, r, label) ==
    LET added == SelectSeq(rcols, LAMBDA c : c \notin Range(df.cols))
        cols == df.cols \o added
        dtype == [c \in Range(cols) |->
                     IF c \in Range(df.cols) THEN df.dtype[c]
                     ELSE EnlargedDtype(r[c])]
    IN  [cols |-> cols,
         dtype |-> dtype,
         index |-> Append(df.index, label),
         rows |-> Append(
             [i \in 1..Len(df.rows) |->
                 [c \in Range(cols) |->
                     IF c \in Range(df.cols) THEN df.rows[i][c] ELSE NaN]],
             [c \in Range(cols) |->
                 IF c \in Range(rcols) THEN Coerce(r[c], dtype[c]) ELSE NaN])]

\* did in df_map_indexed.index, with nothing ever found
HasLabelNever(df, did) == FALSE

\* did in df_map_indexed.index
HasLabel(df, did) == \E i \in 1..Len(df.index) : df.index[i] = did

\* lines 345-351: the rows of df_new from the k-th on, merged one by one
RECURSIVE MergeFrom(_, _, _)
MergeFrom(df, df_new, k) ==
    IF k > Len(df_new.rows) THEN df
    ELSE LET r == [df_new.rows[k] EXCEPT !["doc_id"] = AsStr(@)]
             did == r["doc_id"]
         IN  MergeFrom(IF HasLabel(df, did)
                       THEN SetRowAt(df, did, df_new.cols, r, 1)
                       ELSE ConcatRow(df, df_new.cols, r, df_new.index[k]),
                       df_new, k + 1)

\* df_map.empty: no rows or no columns
FrameEmpty(df) == df.rows = <<>> \/ df.cols = <<>>

\* lines 341-343 raise KeyError when one of the frames has no doc_id column
MergeRaises(df_map, df_new) ==
    /\ ~FrameEmpty(df_map)
    /\ "doc_id" \notin Range(df_map.cols) \cap Range(df_new.cols)

\* lines 336-352: df_final
MergeFrames(df_map, df_new) ==
    IF FrameEmpty(df_map) THEN df_new
    ELSE MergeFrom(SetIndexDocId(df_map), df_new, 1)

-----------------------------------------------------------------------------
(* content_generator: the document texts.                                   *)

\* len(text.split())
WordCount(text) ==
    Cardinality({i \in 1..Len(text) :
                    /\ ~IsSpaceChar(text[i])
                    /\ i = 1 \/ IsSpaceChar(text[i - 1])})

\* ', '.join(s.get('tcs', []))
TcsList(s) == JoinWith(<<",", " ">>, s.tcs)

\* vals[i] is the value generate_sit_value returned for the i-th assignment
build_email_body(doc_meta, vals) ==
    JoinWith(<<"\n", "\n">>,
        [i \in 1..Len(doc_meta.sits) |->
            doc_meta.sits[i].sit_name \o <<":", " ">> \o vals[i]
              \o <<"\n", "C", "o", "n", "t", "e", "x", "t", ":", " ", "r",
                 "e", "l", "a", "t", "e", "d", " ", "t", "o", " ">>
              \o TcsList(doc_meta.sits[i]) \o <<".">>])

\* CHAT_LINE_TEMPLATE.format(time=t, user=user, message=message)
ChatLine(t, user, message) ==
    <<"[">> \o t \o <<"]", " ">> \o user \o <<":", " ">> \o message

build_chat_text(doc_meta, vals, fake) ==
    JoinWith(<<"\n">>,
        Concat([i \in 1..Len(doc_meta.sits) |->
            <<ChatLine(fake.time, fake.user1,
                       <<"P", "l", "e", "a", "s", "e", " ", "s", "h", "a",
                       "r", "e", " ", "t", "h", "e", " ">>
                         \o doc_meta.sits[i].sit_name \o <<".">>),
              ChatLine(fake.time, fake.user2,
                       <<"T", "h", "e", " ">> \o doc_meta.sits[i].sit_name
                         \o <<" ", "i", "s", " ">> \o vals[i] \o <<".">>)>>]))

\* now is the text datetime.utcnow().isoformat() returns
build_document_text(doc_meta, vals, now) ==
    JoinWith(<<"\n", "\n">>,
        <<<<"C", "O", "N", "F", "I", "D", "E", "N", "T", "I", "A", "L", " ",
          "-", " ", "D", "o", "c", "u", "m", "e", "n", "t", " ">>
            \o IntToStr(doc_meta.doc_id) \o <<"\n", "\n">>>>
        \o [i \in 1..Len(doc_meta.sits) |->
              doc_meta.sits[i].sit_name \o <<":", " ">> \o vals[i]
                \o <<"\n", "D", "e", "t", "a", "i", "l", "s", ":", " ", "r",
                   "e", "l", "a", "t", "e", "d", " ", "T", "C", "s", ":",
                   " ">>
                \o TcsList(doc_meta.sits[i]) \o <<".">>]
        \o <<<<"\n", "G", "e", "n", "e", "r", "a", "t", "e", "d", " ", "a",
             "t", ":", " ">> \o now \o <<"Z">>>>)

\* EMAIL_TEMPLATE.format(...)
EmailText(fake, body) ==
    <<"F", "r", "o", "m", ":", " ">> \o fake.from_email
      \o <<"\n", "T", "o", ":", " ">> \o fake.to_email
      \o <<"\n", "S", "u", "b", "j", "e", "c", "t", ":", " ">>
      \o fake.subject \o <<"\n", "\n">> \o body
      \o <<"\n", "\n", "R", "e", "g", "a", "r", "d", "s", ",", "\n">>
      \o fake.sender \o <<"\n">>

\* text += "\n\n" + p until the text has target_words words; every paragraph
\* drawn is fake.paragraph
RECURSIVE fill_to_target(_, _, _)
fill_to_target(text, target_words, fake) ==
    IF WordCount(text) >= target_words THEN text
    ELSE fill_to_target(text \o <<"\n", "\n">> \o fake.paragraph,
                        target_words, fake)

\* lines 283-302: the text of one document
DocText(doc_meta, vals, fake, now) ==
    LET fmt == doc_meta.format
        txt ==
          CASE fmt = "email" ->
                  EmailText(fake, build_email_body(doc_meta, vals))
            [] fmt = "chat" -> build_chat_text(doc_meta, vals, fake)
            [] fmt \in {"document", "pdf"} ->
                  build_document_text(doc_meta, vals, now)
            [] fmt = "email_with_attachment" ->
                  EmailText(fake, build_email_body(doc_meta, vals)
                      \o <<"\n", "\n", "A", "t", "t", "a", "c", "h", "e",
                          "d", ":", " ", "r", "e", "p", "o", "r", "t", ".",
                          "x", "l", "s", "x">>)
            [] OTHER -> build_document_text(doc_meta, vals, now)
    IN  fill_to_target(txt, doc_meta.word_count_target, fake)

\* what the Faker calls of one document return
Fakes ==
    <<[from_email |-> <<"a", "n", "n", "@", "e", "x", "a", "m", "p", "l", "e", ".", "o", "r", "g">>,
       to_email |-> <<"b", "o", "b", "@", "e", "x", "a", "m", "p", "l", "e", ".", "n", "e", "t">>,
       subject |-> <<"Q", "u", "a", "r", "t", "e", "r", "l", "y", " ", "r", "e", "v", "i", "e", "w", " ", "n", "o", "t", "e", "s", ".">>,
       sender |-> <<"A", "n", "n", " ", "L", "e", "e">>,
       time |-> <<"0", "9", ":", "1", "5">>,
       user1 |-> <<"A", "n", "n">>,
       user2 |-> <<"B", "o", "b">>,
       paragraph |-> <<"L", "o", "r", "e", "m", " ", "i", "p", "s", "u", "m", " ", "d", "o", "l", "o", "r", " ", "s", "i", "t", ".">>],
      [from_email |-> <<"e", "v", "e", "@", "e", "x", "a", "m", "p", "l", "e", ".", "c", "o", "m">>,
       to_email |-> <<"d", "a", "n", "@", "e", "x", "a", "m", "p", "l", "e", ".", "o", "r", "g">>,
       subject |-> <<"M", "e", "e", "t", "i", "n", "g", " ", "m", "o", "v", "e", "d", " ", "a", "g", "a", "i", "n", ".">>,
       sender |-> <<"E", "v", "e", " ", "R", "o", "e">>,
       time |-> <<"1", "7", ":", "4", "0">>,
       user1 |-> <<"E", "v", "e">>,
       user2 |-> <<"D", "a", "n">>,
       paragraph |-> <<"A", "m", "e", "t", " ", "e", "l", "i", "t", " ", "s", "e", "d", ".", " ", "M", "a", "g", "n", "a", " ", "q", "u", "i", "s", " ", "a", "l", "i", "q", "u", "a", ".">>]>>

\* what the random draws of the value generators return, call after call
RndStream ==
    <<[digits |-> [i \in 1..17 |-> DigitChar(i % 10)], prefix |-> <<"4">>,
       upper |-> <<"A", "B", "C", "D", "E", "F", "G", "H">>,
       mixed |-> <<"a", "B">>, units |-> <<50, 25, 75, 10>>,
       fault |-> FALSE],
      [digits |-> [i \in 1..17 |-> "7"], prefix |-> <<"5", "5">>,
       upper |-> <<"Z", "Q", "K", "W", "M", "N", "P", "A">>,
       mixed |-> <<"X", "x">>, units |-> <<99, 99, 99, 99>>,
       fault |-> FALSE],
      [digits |-> [i \in 1..17 |-> "0"], prefix |-> <<"4">>,
       upper |-> <<"X", "X", "X", "X", "X", "X", "X", "X">>,
       mixed |-> <<"q", "Q">>, units |-> <<0, 0, 0, 0>>,
       fault |-> FALSE]>>

\* the readings datetime.utcnow().isoformat() can give
Clock ==
    {<<"2", "0", "2", "4", "-", "0", "5", "-", "0", "1", "T", "1", "0", ":",
     "0", "0", ":", "0", "0", ".", "0", "0", "0", "1", "2", "3">>,
     <<"2", "0", "2", "4", "-", "0", "5", "-", "0", "2", "T", "0", "8", ":",
     "3", "0", ":", "1", "5", ".", "2", "5", "0", "0", "0", "0">>}

\* the n-th entry (from 0) of a stream seeded with seed
StreamAt(stream, seed, n) == stream[((seed + n) % Len(stream)) + 1]

\* the number of generate_sit_value calls made for the documents before the
\* k-th
CallsBefore(ds, k) == SumSeq([j \in 1..(k - 1) |-> Len(ds[j].sits)])

\* the values generate_sit_value returns for the assignments of one document
DocValues(doc_meta, rnd) ==
    [i \in 1..Len(doc_meta.sits) |->
        generate_sit_value(doc_meta.sits[i].sit_id, doc_meta.sits[i].sit_name,
                           doc_meta.sits[i].label, rnd[i])]

\* os.path.join("output/files", filename)
OutPath(filename) == <<"output/files/">> \o filename

\* the keys of the mapping row, in order
RenderRowCols ==
    <<"doc_id", "filename", "format", "word_count_target", "sit_ids",
      "labels", "instances", "confidences", "tcs", "actual_file_path",
      "actual_word_count">>

\* lines 312-330: the mapping row of one document
RenderRow(doc_meta, txt, order) ==
    [c \in Range(RenderRowCols) |->
        CASE c = "doc_id" -> IntVal(doc_meta.doc_id)
          [] c = "word_count_target" -> IntVal(doc_meta.word_count_target)
          [] c = "actual_file_path" -> StrVal(OutPath(doc_meta.filename))
          [] c = "actual_word_count" -> IntVal(WordCount(txt))
          [] OTHER -> StrVal(PlanCells(doc_meta, order)[c])]

\* pd.DataFrame(updated_rows)
NewFrame(rows) ==
    IF rows = <<>> THEN EmptyFrame(<<>>)
    ELSE [cols |-> RenderRowCols,
          dtype |-> [c \in Range(RenderRowCols) |->
                        IF rows[1][c].t = "int" THEN "int64" ELSE "object"],
          index |-> [i \in 1..Len(rows) |-> IntVal(i - 1)],
          rows |-> rows]

\* lines 266-270: df_map
LoadLedger(csv) ==
    IF csv.exists THEN ReadCsv(csv)
    ELSE EmptyFrame(SubSeq(RenderRowCols, 1, 9))

-----------------------------------------------------------------------------
(* content_generator.main, one run.                                         *)

\* what a run leaves alone: the locals of the planner and the generator calls
RunFrame ==
    UNCHANGED <<config, doc_id, sit_doc_counts, sit_instance_counts, docs,
                gen_in, gen_out>>

\* the draws of the generate_sit_value calls of one run, in call order
CallDraws(cfg, ds) ==
    IF cfg.random_seed # <<>>
    THEN {[n \in 1..CallsBefore(ds, Len(ds) + 1) |->
              StreamAt(RndStream, cfg.random_seed[1], n - 1)]}
    ELSE [1..CallsBefore(ds, Len(ds) + 1) -> Range(RndStream)]

\* the draws of the Faker calls of one run, one entry per document
FakeDraws(cfg, ds) ==
    IF cfg.random_seed # <<>>
    THEN {[k \in 1..Len(ds) |-> StreamAt(Fakes, cfg.random_seed[1], k - 1)]}
    ELSE [1..Len(ds) -> Range(Fakes)]

\* lines 281-308: the texts of the documents ds
RenderedTexts(ds, calls, fakes, now) ==
    [k \in 1..Len(ds) |->
        DocText(ds[k],
                DocValues(ds[k], [i \in 1..Len(ds[k].sits) |->
                                     calls[CallsBefore(ds, k) + i]]),
                fakes[k], now)]

\* open(out_path, "w").write(txt) for every document, the later one winning
WriteTexts(files, ds, txts) ==
    [p \in DOMAIN files \cup {OutPath(ds[k].filename) : k \in 1..Len(ds)} |->
        IF \E k \in 1..Len(ds) : OutPath(ds[k].filename) = p
        THEN txts[CHOOSE k \in 1..Len(ds) :
                     /\ OutPath(ds[k].filename) = p
                     /\ \A j \in (k + 1)..Len(ds) :
                           OutPath(ds[j].filename) # p]
        ELSE files[p]]

\* lines 266-270 and 335-355: read the ledger, merge the rows, write it
MergeIntoLedger(csv, rows) ==
    ToCsv(MergeFrames(LoadLedger(csv), NewFrame(rows)))

\* the merge cannot be done: the ledger cannot be read, or a frame has no
\* doc_id column
MergeFails(csv, rows) ==
    \/ csv.exists /\ ~CanReadCsv(csv)
    \/ MergeRaises(LoadLedger(csv), NewFrame(rows))

\* the mutant of RenderAborts: only the manifest is looked for
RenderAbortsMetaOnly == ~meta_json.exists

\* lines 249-254: config.json or output/meta.json is not there
RenderAborts == ~config.exists \/ ~meta_json.exists

\* content_generator.main
RenderStage ==
    /\ AtShell
    /\ runs < MaxRuns
    /\ runs' = runs + 1
    /\ IF RenderAborts
       THEN \* lines 249-254: the error is printed and main returns
            /\ stage' = "render_skipped"
            /\ UNCHANGED <<mapping_csv, out_files>>
       ELSE IF mapping_csv.exists /\ ~CanReadCsv(mapping_csv)
       THEN \* line 268 raises before a file is written
            /\ stage' = "render_failed"
            /\ UNCHANGED <<mapping_csv, out_files>>
       ELSE \E calls \in CallDraws(config, meta_json.docs),
               fakes \in FakeDraws(config, meta_json.docs),
               now \in Clock, order \in TagOrders :
              \E txts \in {RenderedTexts(meta_json.docs, calls, fakes, now)} :
                \E rows \in {[k \in 1..Len(txts) |->
                               RenderRow(meta_json.docs[k], txts[k], order)]} :
                   /\ out_files' = WriteTexts(out_files, meta_json.docs, txts)
                   /\ IF MergeFails(mapping_csv, rows)
                      THEN /\ stage' = "render_failed"
                           /\ UNCHANGED mapping_csv
                      ELSE /\ stage' = "rendered"
                           /\ mapping_csv' = MergeIntoLedger(mapping_csv, rows)
    /\ UNCHANGED <<meta_json, mapping_xlsx, report>>
    /\ RunFrame

-----------------------------------------------------------------------------
(* postprocessor.main, one run.                                             *)

\* the pieces of s between the occurrences of sep, left to right
RECURSIVE SplitOn(_, _)
SplitOn(s, sep) ==
    LET hits == {i \in 1..(Len(s) - Len(sep) + 1) :
                    SubSeq(s, i, i + Len(sep) - 1) = sep}
    IN  IF hits = {} THEN <<s>>
        ELSE LET i == CHOOSE h \in hits : \A g \in hits : h <= g
             IN  <<SubSeq(s, 1, i - 1)>>
                   \o SplitOn(SubSeq(s, i + Len(sep), Len(s)), sep)

\* int(x) of a text: its value when it is a run of digits
IsIntText(s) == s # <<>> /\ \A i \in 1..Len(s) : IsDigitChar(s[i])

\* df['doc_id'].astype(int): done when every cell converts, dropped otherwise
AsTypeInt(df) ==
    IF /\ "doc_id" \in Range(df.cols)
       /\ \A i \in 1..Len(df.rows) :
             df.rows[i]["doc_id"].t = "str" /\ IsIntText(df.rows[i]["doc_id"].s)
    THEN [df EXCEPT
            !.dtype = [@ EXCEPT !["doc_id"] = "int64"],
            !.rows = [i \in 1..Len(df.rows) |->
                        [df.rows[i] EXCEPT
                            !["doc_id"] = IntVal(StrToInt(@.s))]]]
    ELSE df

PostCols ==
    <<"docx_path", "pdf_path", "eml_path", "attachments", "postprocessed_at">>

\* df[col] = "" for one column the frame lacks
AddTextColumn(df, col) ==
    IF col \in Range(df.cols) THEN df
    ELSE [cols |-> Append(df.cols, col),
          dtype |-> [c \in Range(df.cols) \cup {col} |->
                        IF c = col THEN "object" ELSE df.dtype[c]],
          index |-> df.index,
          rows |-> [i \in 1..Len(df.rows) |->
                      [c \in Range(df.cols) \cup {col} |->
                          IF c = col THEN StrVal(<<>>) ELSE df.rows[i][c]]]]

\* lines 212-214
RECURSIVE AddPostCols(_, _)
AddPostCols(df, k) ==
    IF k > Len(PostCols) THEN df
    ELSE AddPostCols(AddTextColumn(df, PostCols[k]), k + 1)

\* meta_map.get(doc_id): the last document of the manifest with that id
MetaGet(ds, n) ==
    LET at == {k \in 1..Len(ds) : ds[k].doc_id = n}
    IN  IF at = {} THEN <<>>
        ELSE <<ds[CHOOSE k \in at : \A j \in at : j <= k]>>

\* int(row.get("doc_id")), as a sequence: empty when it raises
RowDocId(row) ==
    IF "doc_id" \notin DOMAIN row THEN <<>>
    ELSE LET v == row["doc_id"]
         IN  CASE v.t \in {"int", "float"} -> <<v.n>>
               [] v.t = "str" /\ IsIntText(v.s) -> <<StrToInt(v.s)>>
               [] OTHER -> <<>>

\* Path(filename).stem, the file name being tokens that end in the extension
Stem(filename) == SubSeq(filename, 1, Len(filename) - 1)

\* the document process_row works on, as a sequence: empty when it returns
\* early (lines 119-134)
RowDoc(row, ds, files) ==
    IF RowDocId(row) = <<>> THEN <<>>
    ELSE LET m == MetaGet(ds, RowDocId(row)[1])
         IN  IF m = <<>> THEN <<>>
             ELSE IF OutPath(m[1].filename) \notin DOMAIN files THEN <<>>
             ELSE m

IsEmailFormat(fmt) == fmt \in {"email", "email_with_attachment"}

\* the artifacts process_row writes for one document, as path/content pairs;
\* the content kept is the text the artifact was made from
RowArtifacts(d, files) ==
    LET text == files[OutPath(d.filename)]
        stem == Stem(d.filename)
    IN  {<<OutPath(stem \o <<".docx">>), text>>,
         <<OutPath(stem \o <<".pdf">>), text>>}
        \cup (IF d.format = "email_with_attachment"
              THEN {<<OutPath(stem \o <<"_attachment.xlsx">>), <<>>>>}
              ELSE {})
        \cup (IF IsEmailFormat(d.format)
              THEN {<<OutPath(stem \o <<".eml">>), text>>}
              ELSE {})

\* the dict process_row returns for the document d, as column/value pairs
RowUpdates(d, now) ==
    <<<<"docx_path", StrVal(OutPath(Stem(d.filename) \o <<".docx">>))>>,
      <<"pdf_path", StrVal(OutPath(Stem(d.filename) \o <<".pdf">>))>>>>
    \o (IF IsEmailFormat(d.format)
        THEN <<<<"eml_path",
                 StrVal(OutPath(Stem(d.filename) \o <<".eml">>))>>>>
        ELSE <<>>)
    \o <<<<"attachments",
           StrVal(IF d.format = "email_with_attachment"
                  THEN OutPath(Stem(d.filename) \o <<"_attachment.xlsx">>)
                  ELSE <<>>)>>,
         <<"postprocessed_at", StrVal(now \o <<"Z">>)>>>>

\* for k, v in updates.items(): df.at[idx, k] = v
RECURSIVE ApplyUpdates(_, _, _, _)
ApplyUpdates(df, idx, updates, k) ==
    IF k > Len(updates) THEN df
    ELSE ApplyUpdates(SetAt(df, idx, updates[k][1], updates[k][2]),
                      idx, updates, k + 1)

\* lines 217-223 for the rows from the i-th on; iterrows reads the frame as
\* it is when the loop starts
RECURSIVE ProcessRows(_, _, _, _, _, _)
ProcessRows(df, df0, ds, files, now, i) ==
    IF i > Len(df0.rows) THEN df
    ELSE LET d == RowDoc(df0.rows[i], ds, files)
         IN  ProcessRows(IF d = <<>> THEN df
                         ELSE ApplyUpdates(df, df0.index[i],
                                           RowUpdates(d[1], now), 1),
                         df0, ds, files, now, i + 1)

\* the artifacts of all rows
AllArtifacts(df, ds, files) ==
    UNION {IF RowDoc(df.rows[i], ds, files) = <<>> THEN {}
           ELSE RowArtifacts(RowDoc(df.rows[i], ds, files)[1], files)
           : i \in 1..Len(df.rows)}

\* the files after the artifacts have been written
WriteArtifacts(files, arts) ==
    [p \in DOMAIN files \cup {a[1] : a \in arts} |->
        IF \E a \in arts : a[1] = p
        THEN (CHOOSE a \in arts : a[1] = p)[2]
        ELSE files[p]]

\* postprocessor.main
PostprocessStage ==
    /\ AtShell
    /\ runs < MaxRuns
    /\ runs' = runs + 1
    /\ IF ~meta_json.exists \/ ~CanReadCsv(mapping_csv)
       THEN \* load_meta or read_mapping_csv raises
            /\ stage' = "postprocess_failed"
            /\ UNCHANGED <<mapping_csv, mapping_xlsx, out_files>>
       ELSE \E now \in Clock :
              \E df0 \in {AddPostCols(AsTypeInt(ReadCsv(mapping_csv)), 1)} :
                \E df \in {ProcessRows(df0, df0, meta_json.docs, out_files,
                                       now, 1)} :
                   /\ stage' = "postprocessed"
                   /\ out_files' =
                        WriteArtifacts(out_files,
                            AllArtifacts(df0, meta_json.docs, out_files))
                   /\ mapping_csv' = ToCsv(df)
                   /\ mapping_xlsx' = ToCsv(df)
    /\ UNCHANGED <<meta_json, report>>
    /\ RunFrame

-----------------------------------------------------------------------------
(* validator.main, one run.                                                 *)

\* \w of the pattern language
IsWordChar(c) == IsAlnum(c) \/ c = "_"

\* the position after n groups of four digits that start at i, an optional
\* blank or hyphen before each group but the first; 0 when they are not there
RECURSIVE CcnGroupsEnd(_, _, _)
CcnGroupsEnd(text, i, n) ==
    IF n = 0 THEN i
    ELSE IF /\ i + 3 <= Len(text)
            /\ \A j \in i..(i + 3) : IsDigitChar(text[j])
         THEN LET nxt == i + 4
              IN  IF n = 1 THEN nxt
                  ELSE IF nxt <= Len(text) /\ text[nxt] \in {" ", "-"}
                          /\ CcnGroupsEnd(text, nxt + 1, n - 1) # 0
                       THEN CcnGroupsEnd(text, nxt + 1, n - 1)
                       ELSE CcnGroupsEnd(text, nxt, n - 1)
         ELSE 0

\* the card-number pattern of the catalog, a number of sixteen digits in
\* groups of four: the position after a match that starts at i, 0 if none
CcnMatchEnd(text, i) ==
    IF i > 1 /\ IsWordChar(text[i - 1]) THEN 0
    ELSE LET e == CcnGroupsEnd(text, i, 4)
         IN  IF e = 0 THEN 0
             ELSE IF e <= Len(text) /\ IsWordChar(text[e]) THEN 0
             ELSE e

\* s.get("regex", "") of a category: the name of its pattern, "" for none
CatalogRegex(sid) == IF sid = "SIT_CCN" THEN "ccn" ELSE ""

\* sit_regex.get(sid) for the catalog of cfg
SitRegex(cfg, sid) ==
    IF sid \in Range(cfg.sits) THEN CatalogRegex(sid) ELSE ""

\* [m.group(0) for m in regex.finditer(text)] from position i on: the
\* leftmost match, then the matches after its end
RECURSIVE FindIter(_, _, _)
FindIter(regex, text, i) ==
    LET starts == IF regex = "" THEN {}
                  ELSE {j \in i..Len(text) : CcnMatchEnd(text, j) # 0}
    IN  IF starts = {} THEN <<>>
        ELSE LET j == CHOOSE a \in starts : \A b \in starts : a <= b
                 e == CcnMatchEnd(text, j)
             IN  <<SubSeq(text, j, e - 1)>> \o FindIter(regex, text, e)

\* str(row.get(col, ""))
RowStr(row, col) ==
    IF col \notin DOMAIN row THEN <<>>
    ELSE IF row[col].t = "nan" THEN <<"nan">>
    ELSE CsvCell(row[col])

\* [s for s in cell.split(";") if s]
SplitList(cell) == SelectSeq(SplitOn(cell, <<";">>), LAMBDA s : s # <<>>)

\* lines 258-264: inst_list
InstList(cell) ==
    IF cell = <<>> THEN <<>>
    ELSE LET xs == SplitOn(cell, <<";">>)
         IN  [i \in 1..Len(xs) |->
                 IF IsIntText(xs[i]) THEN StrToInt(xs[i]) ELSE 1]

\* the paths extract_text_for_row tries, in order (lines 106-112)
TextCandidates(row) ==
    LET named == SelectSeq(<<"actual_file_path", "docx_path", "pdf_path",
                             "eml_path", "filename">>,
                           LAMBDA c : /\ c \in DOMAIN row
                                      /\ row[c].t = "str"
                                      /\ row[c].s # <<>>)
        cands == [i \in 1..Len(named) |-> row[named[i]].s]
    IN  IF /\ "filename" \in DOMAIN row
           /\ row["filename"].t = "nan" \/ row["filename"].s # <<>>
           /\ \A i \in 1..Len(cands) : cands[i][1] # "output/files/"
        THEN Append(cands, OutPath(RowStr(row, "filename")))
        ELSE cands

\* lines 118-121: the path a candidate stands for
ResolvePath(p, files) ==
    IF p \notin DOMAIN files /\ OutPath(p) \in DOMAIN files THEN OutPath(p)
    ELSE p

\* "\n".join(p.text for p in d.paragraphs) of the document write_docx made
read_docx(text) == JoinWith(<<"\n">>, SplitOn(text, <<"\n", "\n">>))

\* text.split(): the words of a text, in order
WordsOf(text) ==
    LET starts == {i \in 1..Len(text) :
                      /\ ~IsSpaceChar(text[i])
                      /\ i = 1 \/ IsSpaceChar(text[i - 1])}
        EndOf(i) == CHOOSE e \in i..Len(text) :
                       /\ \A j \in i..e : ~IsSpaceChar(text[j])
                       /\ e = Len(text) \/ IsSpaceChar(text[e + 1])
    IN  [n \in 1..Cardinality(starts) |->
            LET i == CHOOSE a \in starts :
                        Cardinality({b \in starts : b < a}) = n - 1
            IN  SubSeq(text, i, EndOf(i))]

\* write_pdf lines 58-67: the lines of one paragraph, from its k-th word on
RECURSIVE WrapWords(_, _, _)
WrapWords(words, line, k) ==
    IF k > Len(words) THEN (IF line # <<>> THEN <<line>> ELSE <<>>)
    ELSE IF Len(line) + 1 + Len(words[k]) > 100
         THEN <<line>> \o WrapWords(words, words[k], k + 1)
         ELSE WrapWords(words,
                        IF line = <<>> THEN words[k]
                        ELSE line \o <<" ">> \o words[k],
                        k + 1)

\* the text of the pdf write_pdf made: its lines, a blank one after each
\* paragraph
read_pdf(text) ==
    LET paras == SplitOn(text, <<"\n", "\n">>)
    IN  JoinWith(<<"\n">>,
            Concat([i \in 1..Len(paras) |->
                       Append(WrapWords(WordsOf(paras[i]), <<>>, 1), <<>>)]))

\* the body of the mail create_eml made: the text, ended by a line break
read_eml(text) ==
    IF text # <<>> /\ text[Len(text)] = "\n" THEN text
    ELSE text \o <<"\n">>

\* the text read from an existing file, by its extension; an artifact is kept
\* as the text it was made from
ReadArtifact(p, files) ==
    LET ext == p[Len(p)]
    IN  CASE ext = ".docx" -> read_docx(files[p])
          [] ext = ".pdf" -> read_pdf(files[p])
          [] ext = ".eml" -> read_eml(files[p])
          [] OTHER -> files[p]

\* lines 114-145: the first candidate that yields a text, from the k-th on
RECURSIVE ExtractFrom(_, _, _)
ExtractFrom(cands, files, k) ==
    IF k > Len(cands) THEN <<>>
    ELSE LET p == ResolvePath(cands[k], files)
         IN  IF p \in DOMAIN files /\ ReadArtifact(p, files) # <<>>
             THEN ReadArtifact(p, files)
             ELSE ExtractFrom(cands, files, k + 1)

\* the mutant of extract_text_for_row: a row without a readable file gets the
\* text of some other file
extract_text_or_other(row, files) ==
    LET t == ExtractFrom(TextCandidates(row), files, 1)
    IN  IF t = <<>> /\ DOMAIN files # {}
        THEN files[CHOOSE p \in DOMAIN files : TRUE]
        ELSE t

extract_text_for_row(row, files) == ExtractFrom(TextCandidates(row), files, 1)

\* the assignments of one row as the validator reads them (lines 253-276)
RowEntries(cfg, row, files) ==
    LET sit_list == SplitList(RowStr(row, "sit_ids"))
        label_list == SplitList(RowStr(row, "labels"))
        inst_list == InstList(RowStr(row, "instances"))
        text == extract_text_for_row(row, files)
    IN  [i \in 1..Len(sit_list) |->
            LET sid == sit_list[i][1]
            IN  [doc_id |-> RowStr(row, "doc_id"),
                 sid |-> sid,
                 lbl |-> IF i <= Len(label_list) THEN label_list[i][1]
                         ELSE "TP",
                 inst |-> IF i <= Len(inst_list) THEN inst_list[i] ELSE 1,
                 matches |-> FindIter(SitRegex(cfg, sid), text, 1)]]

\* the matches is_placeholder does not reject
FoundReal(matches) ==
    Cardinality({k \in 1..Len(matches) : ~is_placeholder(matches[k])})

\* the mutant of TpDoc: need = inst, without the floor of 1
TpDocNoFloor(e) == e.lbl = "TP" /\ FoundReal(e.matches) >= e.inst

\* lines 301-310: the assignment counts as a TP document
TpDoc(e) == e.lbl = "TP" /\ FoundReal(e.matches) >= Max2(1, e.inst)

\* lines 319-328: the FP assignment is flagged
FpFlagged(e) == e.lbl # "TP" /\ FoundReal(e.matches) > 0

\* the tally of the entries that satisfy hit, keyed like a defaultdict
TallyOf(entries, hit) ==
    [sid \in {entries[k].sid : k \in hit} |->
        Cardinality({k \in hit : entries[k].sid = sid})]

\* the issue lines, in order
IssuesOf(entries) ==
    LET bad == SelectSeq([k \in 1..Len(entries) |-> k],
                         LAMBDA k : IF entries[k].lbl = "TP"
                                    THEN ~TpDoc(entries[k])
                                    ELSE FpFlagged(entries[k]))
    IN  [n \in 1..Len(bad) |->
            [kind |-> IF entries[bad[n]].lbl = "TP" THEN "TP missing matches"
                      ELSE "FP contains valid-looking match",
             doc_id |-> entries[bad[n]].doc_id,
             sid |-> entries[bad[n]].sid,
             found |-> FoundReal(entries[bad[n]].matches),
             need |-> Max2(1, entries[bad[n]].inst)]]

\* lines 242-330: the tallies of the report
ReportOf(cfg, df, files) ==
    LET entries == Concat([i \in 1..Len(df.rows) |->
                              RowEntries(cfg, df.rows[i], files)])
        all == 1..Len(entries)
    IN  [done |-> TRUE,
         docs |-> TallyOf(entries, all),
         tp_docs |-> TallyOf(entries, {k \in all : TpDoc(entries[k])}),
         fp_flagged |-> TallyOf(entries, {k \in all : FpFlagged(entries[k])}),
         total_instances |->
             [sid \in {entries[k].sid : k \in all} |->
                 SumSeq([k \in all |-> IF entries[k].sid = sid
                                       THEN entries[k].inst ELSE 0])],
         issues |-> IssuesOf(entries)]

\* load_mapping: the workbook if there is one, else the csv
MappingToValidate ==
    IF mapping_xlsx.exists THEN mapping_xlsx ELSE mapping_csv

\* validator.main
ValidateStage ==
    /\ AtShell
    /\ runs < MaxRuns
    /\ runs' = runs + 1
    /\ IF ~CanReadCsv(MappingToValidate)
       THEN \* load_mapping raises
            /\ stage' = "validate_failed"
            /\ UNCHANGED report
       ELSE /\ stage' = "validated"
            /\ report' = ReportOf(config, ReadCsv(MappingToValidate),
                                  out_files)
    /\ UNCHANGED <<meta_json, mapping_csv, mapping_xlsx, out_files>>
    /\ RunFrame

-----------------------------------------------------------------------------
(* The pipeline: the four programs run one after the other, in any order.   *)

NextPipeline ==
    \/ PlanStart
    \/ PlanIterate
    \/ PlanBreak
    \/ PlanSave
    \/ RenderStage
    \/ PostprocessStage
    \/ ValidateStage

\* end-to-end scenario 1: the catalog holds SIT_CCN only, target 1, every
\* label TP, every instance count of the distribution; one format per config,
\* seeded, and the chat format without a seed as well
E2EConfigs ==
    {[BaseConfig EXCEPT !.sits = <<"SIT_CCN">>, !.per_sit_count = 1,
                        !.tp_ratio = 100,
                        !.formats = <<fs[1]>>,
                        !.random_seed = fs[2]]
     : fs \in {<<"document", <<0>>>>, <<"email", <<1>>>>, <<"chat", <<2>>>>,
               <<"chat", <<>>>>}}

InitE2E == IdleInit /\ runs = 0 /\ config \in E2EConfigs

\* the scenario runs the planner, the renderer and the validator
NextE2E ==
    \/ PlanStart
    \/ PlanIterate
    \/ PlanBreak
    \/ PlanSave
    \/ RenderStage
    \/ ValidateStage

SpecE2E == InitE2E /\ [][NextE2E]_vars

\* C7 (as claimed): with the catalog holding only SIT_CCN, target 1 and TP
\* ratio 1.0, whatever instance count is drawn, running Plan, then Render,
\* then Validate gives a manifest of exactly one document with one TP
\* assignment for SIT_CCN and a report with tp_docs = 1 for SIT_CCN.
C7_CcnScenarioReportsTpDoc ==
    [][(runs = 2 /\ stage = "rendered" /\ stage' = "validated")
          => /\ Len(meta_json.docs) = 1
             /\ Len(meta_json.docs[1].sits) = 1
             /\ meta_json.docs[1].sits[1].sit_id = "SIT_CCN"
             /\ meta_json.docs[1].sits[1].label = "TP"
             /\ CountGet(report'.tp_docs, "SIT_CCN") = 1]_vars

\* one category with target 2 (two documents) and two categories with target
\* 1, two formats, seeded
LedgerConfigs ==
    {[BaseConfig EXCEPT !.sits = ct[1],
                        !.per_sit_count = ct[2],
                        !.tp_ratio = 100,
                        !.formats = <<"document", "email">>,
                        !.instance_count_distribution = << <<"1", 100>> >>,
                        !.random_seed = <<0>>]
     : ct \in {<< <<"SIT_CCN">>, 2 >>, << <<"SIT_CCN", "SIT_IBAN">>, 1 >>}}

InitLedger == IdleInit /\ runs = 0 /\ config \in LedgerConfigs

SpecLedger == InitLedger /\ [][NextPipeline]_vars

\* the doc_id cells of the ledger, row by row
LedgerDocIds ==
    IF "doc_id" \notin Range(mapping_csv.cols) THEN <<>>
    ELSE [i \in 1..Len(mapping_csv.rows) |-> mapping_csv.rows[i]["doc_id"]]

\* C9: the mapping ledger never holds two rows with the same doc_id, however
\* Plan, Render and Postprocess are run and re-run, and after a Render that
\* completed it holds exactly one row for each doc_id of the manifest.
C9_OneRowPerDocId ==
    /\ \A i, j \in 1..Len(LedgerDocIds) :
          LedgerDocIds[i] = LedgerDocIds[j] => i = j
    /\ stage = "rendered"
          => /\ Len(LedgerDocIds) = Len(meta_json.docs)
             /\ \A k \in 1..Len(meta_json.docs) :
                   \E i \in 1..Len(LedgerDocIds) :
                      LedgerDocIds[i] = IntToStr(meta_json.docs[k].doc_id)

\* Render has run again over a ledger of two or more rows that Render and
\* then Postprocess had completed
C9_Witness ==
    /\ stage = "rendered"
    /\ Len(mapping_csv.rows) >= 2
    /\ "postprocessed_at" \in Range(mapping_csv.cols)
    /\ \A i \in 1..Len(mapping_csv.rows) :
          mapping_csv.rows[i]["postprocessed_at"] # <<>>

-----------------------------------------------------------------------------
(* The ledger merge of the renderer on its own: a ledger and the rows of a  *)
(* manifest, merged and merged again.                                       *)

SampleDoc(d, wc) ==
    DocMeta(d, "document", wc, <<SitMeta(BaseConfig, "SIT_CCN", "TP", 1)>>)

\* manifests of at most two documents
SampleManifests ==
    {<<>>}
    \cup {<<SampleDoc(d, wc)>> : d \in 1..2, wc \in {24, 30}}
    \cup {<<SampleDoc(a, 24), SampleDoc(3 - a, wc)>> :
            a \in 1..2, wc \in {24, 30}}

\* the rows the renderer makes for a manifest
SampleRows(ds) ==
    LET txts == RenderedTexts(ds,
                    CHOOSE c \in CallDraws(BaseConfig, ds) : TRUE,
                    CHOOSE f \in FakeDraws(BaseConfig, ds) : TRUE,
                    CHOOSE now \in Clock : TRUE)
    IN  [k \in 1..Len(ds) |->
            RenderRow(ds[k], txts[k], CHOOSE o \in TagOrders : TRUE)]

\* ledgers: none, as the planner writes it, as the renderer writes it
SampleLedgers ==
    {NoMappingCsv}
    \cup {PlanCsv(ds, CHOOSE o \in TagOrders : TRUE) : ds \in SampleManifests}
    \cup {MergeIntoLedger(NoMappingCsv, SampleRows(ds)) :
            ds \in SampleManifests}

\* lines 266-270 and 335-355, run on the rows gen_in
MergeRows ==
    /\ stage \in {"idle", "merged"}
    /\ Len(gen_out) < 2
    /\ stage' = "merged"
    /\ mapping_csv' = IF MergeFails(mapping_csv, gen_in) THEN mapping_csv
                      ELSE MergeIntoLedger(mapping_csv, gen_in)
    /\ gen_out' = Append(gen_out, mapping_csv')
    /\ UNCHANGED <<config, doc_id, sit_doc_counts, sit_instance_counts, docs,
                   meta_json, mapping_xlsx, out_files, runs, gen_in, report>>

InitMerge ==
    /\ stage = "idle"
    /\ config = BaseConfig
    /\ doc_id = 0
    /\ sit_doc_counts = EmptyCounts
    /\ sit_instance_counts = EmptyCounts
    /\ docs = <<>>
    /\ meta_json = NoMetaJson
    /\ mapping_csv \in SampleLedgers
    /\ mapping_xlsx = NoMappingCsv
    /\ out_files = NoFiles
    /\ runs = 0
    /\ gen_in \in {SampleRows(ds) : ds \in SampleManifests}
    /\ gen_out = <<>>
    /\ report = NoReport

SpecMerge == InitMerge /\ [][MergeRows]_vars

\* C10 (as claimed): merging the same rows into the ledger a second time
\* leaves the ledger as it was after the first merge, in its rows and in
\* every column, whether the doc_ids were in the ledger before or not.
C10_MergeIdempotent ==
    Len(gen_out) = 2 => gen_out[2] = gen_out[1]

-----------------------------------------------------------------------------
(* The renderer's merge into a ledger that holds the doc_id already.        *)

\* the manifest document a ledger row stands for, as a sequence
LedgerRowDoc(row, ds) ==
    IF "doc_id" \in DOMAIN row /\ IsIntText(row["doc_id"])
    THEN MetaGet(ds, StrToInt(row["doc_id"]))
    ELSE <<>>

\* the cells the renderer's row for the document d carries, the text text
\* having been written for it
IncomingCells(d, text, order) ==
    [c \in Range(RenderRowCols) |-> CsvCell(RenderRow(d, text, order)[c])]

\* C11 (as claimed): when a run of the renderer merges its rows into a ledger
\* that has rows, no error is raised; a row whose doc_id is in the manifest
\* holds, in each column of the incoming row, the incoming value, and keeps
\* the value of every other column; a row of another doc_id is unchanged.
C11_MergeLastWriterWins ==
    [][(/\ AtShell
        /\ stage' \in {"rendered", "render_failed"}
        /\ meta_json.exists
        /\ mapping_csv.rows # <<>>)
          => /\ stage' = "rendered"
             /\ \A i \in 1..Len(mapping_csv.rows) :
                  LET old == mapping_csv.rows[i]
                      new == mapping_csv'.rows[i]
                      d == LedgerRowDoc(old, meta_json.docs)
                  IN  IF d = <<>>
                      THEN \A c \in DOMAIN old : new[c] = old[c]
                      ELSE /\ \A c \in DOMAIN old \ Range(RenderRowCols) :
                                 new[c] = old[c]
                           /\ \E order \in TagOrders :
                                 \A c \in Range(RenderRowCols) :
                                    new[c] = IncomingCells(d[1],
                                        out_files'[OutPath(d[1].filename)],
                                        order)[c]]_vars

-----------------------------------------------------------------------------
(* generate_sit_value when the generator called may raise.                  *)

\* the draws of one call, the generator raising or not
FaultDraws == RndDraws \cup {[r EXCEPT !.fault = TRUE] : r \in RndDraws}

\* one call; gen_out records whether the generator raised and what the call
\* returned
CallGenerateSitValueFaulty ==
    /\ stage \in {"idle", "returned"}
    /\ Len(gen_out) < MaxCalls
    /\ stage' = "returned"
    /\ \E rnd \in FaultDraws :
          gen_out' = Append(gen_out,
              [fault |-> rnd.fault,
               value |-> generate_sit_value(gen_in.sit_id, gen_in.sit_name,
                                            gen_in.label, rnd)])
    /\ GeneratorFrame

SpecSitValueFaulty == InitSitValue /\ [][CallGenerateSitValueFaulty]_vars

\* the generic fallback as the contract words it
GenericFallback(sit_id, sit_name, label) ==
    IF label = "TP"
    THEN <<"<">> \o Upper([i \in 1..Len(sit_name) |->
                              IF sit_name[i] = " " THEN "_" ELSE sit_name[i]])
           \o <<"_", "V", "A", "L", "U", "E", ">">>
    ELSE <<"R", "E", "D", "A", "C", "T", "E", "D", "_">> \o IdText(sit_id)

\* C12: generate_sit_value returns a text on every call; when the category
\* id has no registered generator, and when the registered generator raises,
\* the text is the generic fallback: '<' + the upper-cased name with blanks
\* replaced by '_' + '_VALUE>' for label TP, 'REDACTED_' + the id otherwise.
\* (Category ids are the non-empty ids of a catalog and names are strings.)
C12_FailsSoftIntoFallback ==
    \A i \in 1..Len(gen_out) :
       /\ gen_out[i].value # <<"Traceback">>
       /\ (gen_in.sit_id \notin RegisteredIds \/ gen_out[i].fault)
             => gen_out[i].value =
                   GenericFallback(gen_in.sit_id, gen_in.sit_name, gen_in.label)

\* a registered generator has raised in a call for label TP
C12_Witness ==
    /\ gen_in.sit_id \in RegisteredIds
    /\ gen_in.label = "TP"
    /\ Len(gen_out) = MaxCalls
    /\ gen_out[1].fault
    /\ gen_out[1].value =
          <<"<">> \o NameToken(gen_in.sit_name)
            \o <<"_", "V", "A", "L", "U", "E", ">">>

\* C13 (as claimed): for every category id no generator is registered for,
\* the text generate_sit_value returns for label TP, the generic
\* '<..._VALUE>' placeholder, is classified as placeholder-like by
\* is_placeholder.
C13_GenericTpIsPlaceholder ==
    (gen_in.sit_id \notin RegisteredIds /\ gen_in.label = "TP")
       => \A i \in 1..Len(gen_out) : is_placeholder(gen_out[i])

\* the number of plans of ds that assign the category sid
PlansAssigning(ds, sid) ==
    Cardinality({i \in 1..Len(ds) : sid \in SitIdsOf(ds[i].sits)})

\* C14 (as claimed): when the planner has stopped and saved with some
\* category below its target, the saved manifest's sit_doc_counts has an
\* entry for every below-target category of the catalog, the never-assigned
\* ones included, and the entry is the category's actual document count.
C14_ShortfallVisibleInManifest ==
    stage = "plan_done"
       => \A sid \in CatalogKeys :
             PlansAssigning(meta_json.docs, sid) < Target
                => /\ sid \in DOMAIN meta_json.sit_doc_counts
                   /\ meta_json.sit_doc_counts[sid]
                         = PlansAssigning(meta_json.docs, sid)

\* what a run of the renderer leaves behind from the current state under the
\* draws of the seeded generators, the clock reading now and the iteration
\* order of the tag set
RenderOutcome(calls, fakes, now, order) ==
    LET txts == RenderedTexts(meta_json.docs, calls, fakes, now)
        rows == [k \in 1..Len(txts) |->
                    RenderRow(meta_json.docs[k], txts[k], order)]
    IN  [files |-> WriteTexts(out_files, meta_json.docs, txts),
         ledger |-> MergeIntoLedger(mapping_csv, rows)]

\* C15 (as claimed): rendering is deterministic when seeded: a run of
\* content_generator.main with random_seed set leaves the texts and the
\* ledger rows that every other run over the same manifest, config and
\* ledger leaves, for every format.
C15_SeededRenderDeterministic ==
    [][(/\ AtShell
        /\ stage' = "rendered"
        /\ config.random_seed # <<>>)
          => \A calls \in CallDraws(config, meta_json.docs),
                fakes \in FakeDraws(config, meta_json.docs),
                now \in Clock, order \in TagOrders :
                  /\ out_files' = RenderOutcome(calls, fakes, now, order).files
                  /\ mapping_csv' = RenderOutcome(calls, fakes, now, order).ledger]_vars

-----------------------------------------------------------------------------
(* The validator on its own: ledgers of one or two rows, every row with its  *)
(* text file readable, empty or missing. gen_in holds what the ledger and    *)
(* the files were made from.                                                 *)

\* a card number as the renderer writes it for label TP, and for label FP
RealCcn == generate_sit_value("SIT_CCN", CatalogName("SIT_CCN"), "TP", RndStream[1])

ZeroCcn == generate_sit_value("SIT_CCN", CatalogName("SIT_CCN"), "FP", RndStream[1])

\* a text file of a row: whether it is there, and the values it holds, one
\* per line
ValidateTexts ==
    {[exists |-> FALSE, vals |-> <<>>]}
       \cup {[exists |-> TRUE, vals |-> vs] :
                vs \in {<<>>, <<RealCcn>>, <<ZeroCcn>>, <<RealCcn, RealCcn>>,
                        <<RealCcn, ZeroCcn>>}}

\* one assignment of a row
ValidateAssignments ==
    [sid : {"SIT_CCN", "SIT_IBAN"}, lbl : {"TP", "FP"}, inst : {0, 1, 2}]

\* the assignments of the first row with its text, and of the second
ValidateFirstRows ==
    {[sits |-> ss, text |-> t] :
        ss \in {<<a>> : a \in ValidateAssignments}
               \cup {<<a, b>> : a, b \in {x \in ValidateAssignments : x.inst = 1}},
        t \in ValidateTexts}

ValidateSecondRows ==
    {[sits |-> <<[sid |-> "SIT_CCN", lbl |-> "TP", inst |-> 1]>>,
      text |-> [exists |-> TRUE, vals |-> <<RealCcn>>]],
     [sits |-> <<[sid |-> "SIT_CCN", lbl |-> "FP", inst |-> 1]>>,
      text |-> [exists |-> TRUE, vals |-> <<RealCcn>>]],
     [sits |-> <<[sid |-> "SIT_CCN", lbl |-> "TP", inst |-> 2]>>,
      text |-> [exists |-> TRUE, vals |-> <<RealCcn, RealCcn>>]],
     [sits |-> <<[sid |-> "SIT_IBAN", lbl |-> "TP", inst |-> 1]>>,
      text |-> [exists |-> TRUE, vals |-> <<RealCcn>>]]}

ValidateSamples ==
    {<<r>> : r \in ValidateFirstRows}
       \cup {<<r, q>> : r \in ValidateFirstRows, q \in ValidateSecondRows}

\* the ledger row of the n-th sample row, as the renderer leaves it
ValidateRow(n, r) ==
    [doc_id |-> IntToStr(n),
     filename |-> FilenameOf(n, "document"),
     format |-> <<"document">>,
     sit_ids |-> JoinSits([i \in 1..Len(r.sits) |-> <<r.sits[i].sid>>]),
     labels |-> JoinSits([i \in 1..Len(r.sits) |-> <<r.sits[i].lbl>>]),
     instances |-> JoinSits([i \in 1..Len(r.sits) |-> IntToStr(r.sits[i].inst)]),
     actual_file_path |-> OutPath(FilenameOf(n, "document"))]

ValidateLedger(sample) ==
    [exists |-> TRUE,
     cols |-> <<"doc_id", "filename", "format", "sit_ids", "labels",
                "instances", "actual_file_path">>,
     rows |-> [n \in 1..Len(sample) |-> ValidateRow(n, sample[n])]]

\* output/files/ for the sample: a file per row whose text is not missing
ValidateFiles(sample) ==
    [p \in {OutPath(FilenameOf(n, "document")) :
               n \in {m \in 1..Len(sample) : sample[m].text.exists}} |->
        LET n == CHOOSE m \in 1..Len(sample) :
                    OutPath(FilenameOf(m, "document")) = p
        IN  JoinWith(<<"\n">>, sample[n].text.vals)]

\* the catalog with and without the category that has a pattern
ValidateConfigs ==
    {[BaseConfig EXCEPT !.sits = ss] :
        ss \in {<<"SIT_CCN", "SIT_IBAN">>, <<"SIT_IBAN">>}}

InitValidate ==
    /\ stage = "idle"
    /\ doc_id = 0
    /\ sit_doc_counts = EmptyCounts
    /\ sit_instance_counts = EmptyCounts
    /\ docs = <<>>
    /\ meta_json = NoMetaJson
    /\ mapping_xlsx = NoMappingCsv
    /\ gen_out = <<>>
    /\ report = NoReport
    /\ runs = MaxRuns - 1
    /\ config \in ValidateConfigs
    /\ gen_in \in ValidateSamples
    /\ mapping_csv = ValidateLedger(gen_in)
    /\ out_files = ValidateFiles(gen_in)

SpecValidate == InitValidate /\ [][ValidateStage]_vars

\* the assignments of the sample, row after row
SampleAssignments ==
    Concat([n \in 1..Len(gen_in) |->
               [i \in 1..Len(gen_in[n].sits) |->
                   [sid |-> gen_in[n].sits[i].sid,
                    lbl |-> gen_in[n].sits[i].lbl,
                    inst |-> gen_in[n].sits[i].inst,
                    doc_id |-> IntToStr(n),
                    text |-> gen_in[n].text]]])

\* the matches of an assignment that are not placeholder-like: the real card
\* numbers of the text when the category has a pattern, none otherwise
RealMatches(a) ==
    IF a.sid # "SIT_CCN" \/ "SIT_CCN" \notin Range(config.sits)
          \/ ~a.text.exists
    THEN 0
    ELSE Cardinality({i \in 1..Len(a.text.vals) : a.text.vals[i] = RealCcn})

\* the number of issues recorded for the assignment a
IssuesFor(a, kind) ==
    Cardinality({n \in 1..Len(report.issues) :
                    /\ report.issues[n].kind = kind
                    /\ report.issues[n].doc_id = a.doc_id
                    /\ report.issues[n].sid = a.sid})

\* the assignments like a: same row, same category (a row may name a
\* category twice)
Alike(a, want) ==
    Cardinality({k \in 1..Len(SampleAssignments) :
                    /\ SampleAssignments[k].doc_id = a.doc_id
                    /\ SampleAssignments[k].sid = a.sid
                    /\ want[k]})

\* C16: for every assignment of every mapping row the validator applies this
\* rule: a TP assignment is counted in tp_docs if and only if its matches
\* that are not placeholder-like number at least max(1, instance_count), and
\* otherwise exactly one issue is recorded for it; an FP assignment is
\* counted in fp_flagged and gets one issue if and only if at least one match
\* is not placeholder-like; a category without a pattern has no matches.
C16_ValidatorRule ==
    report.done
       => LET as == SampleAssignments
              all == 1..Len(as)
              need == [k \in all |-> IF as[k].inst > 1 THEN as[k].inst ELSE 1]
              tp_ok == [k \in all |-> as[k].lbl = "TP"
                                         /\ RealMatches(as[k]) >= need[k]]
              tp_bad == [k \in all |-> as[k].lbl = "TP" /\ ~tp_ok[k]]
              fp_bad == [k \in all |-> as[k].lbl = "FP"
                                         /\ RealMatches(as[k]) >= 1]
          IN  /\ \A sid \in {"SIT_CCN", "SIT_IBAN"} :
                   /\ CountGet(report.tp_docs, sid)
                         = Cardinality({k \in all : as[k].sid = sid /\ tp_ok[k]})
                   /\ CountGet(report.fp_flagged, sid)
                         = Cardinality({k \in all : as[k].sid = sid /\ fp_bad[k]})
              /\ \A k \in all :
                   /\ IssuesFor(as[k], "TP missing matches") = Alike(as[k], tp_bad)
                   /\ IssuesFor(as[k], "FP contains valid-looking match")
                         = Alike(as[k], fp_bad)
              /\ Len(report.issues)
                    = Cardinality({k \in all : tp_bad[k] \/ fp_bad[k]})

\* a report over a TP assignment that passed with two matches for instance
\* count 2 and a flagged FP assignment in the second row
C16_Witness ==
    /\ report.done
    /\ Len(gen_in) = 2
    /\ gen_in[1].sits = <<[sid |-> "SIT_CCN", lbl |-> "TP", inst |-> 2]>>
    /\ gen_in[1].text = [exists |-> TRUE, vals |-> <<RealCcn, RealCcn>>]
    /\ gen_in[2].sits[1].lbl = "FP"
    /\ CountGet(report.tp_docs, "SIT_CCN") = 1
    /\ CountGet(report.fp_flagged, "SIT_CCN") = 1
    /\ Len(report.issues) = 1

\* the sample rows none of whose representations can be read: the text file
\* is not there, or it is empty
Unreadable(n) == ~gen_in[n].text.exists \/ gen_in[n].text.vals = <<>>

\* the assignments of the sample rows rs that carry category sid and label lbl
AssignedIn(rs, sid, lbl) ==
    Cardinality({k \in 1..Len(SampleAssignments) :
                    /\ SampleAssignments[k].doc_id \in {IntToStr(n) : n \in rs}
                    /\ SampleAssignments[k].sid = sid
                    /\ SampleAssignments[k].lbl = lbl})

\* C17: when none of a row's representations can be read, the text
\* extract_text_for_row returns for it is empty and the validator completes
\* over all rows; every TP assignment of that row is reported as an issue and
\* is not counted in tp_docs, and every FP assignment of that row passes: it
\* is not counted in fp_flagged and gets no issue.
C17_UnreadableRowBiasesReport ==
    report.done
       => LET rows == 1..Len(gen_in)
              lost == {n \in rows : Unreadable(n)}
          IN  /\ \A n \in lost :
                    extract_text_for_row(ReadCsv(mapping_csv).rows[n], out_files)
                       = <<>>
              /\ \A sid \in {"SIT_CCN", "SIT_IBAN"} :
                    /\ CountGet(report.docs, sid)
                          = AssignedIn(rows, sid, "TP") + AssignedIn(rows, sid, "FP")
                    /\ CountGet(report.tp_docs, sid)
                          <= AssignedIn(rows \ lost, sid, "TP")
                    /\ CountGet(report.fp_flagged, sid)
                          <= AssignedIn(rows \ lost, sid, "FP")
                    /\ \A n \in lost :
                          /\ Cardinality({i \in 1..Len(report.issues) :
                                /\ report.issues[i].kind = "TP missing matches"
                                /\ report.issues[i].found = 0
                                /\ report.issues[i].doc_id = IntToStr(n)
                                /\ report.issues[i].sid = sid})
                                = AssignedIn({n}, sid, "TP")
                          /\ \A i \in 1..Len(report.issues) :
                                report.issues[i].doc_id = IntToStr(n)
                                   => report.issues[i].kind = "TP missing matches"

\* the text file of the first row is missing, the row has a TP and an FP
\* assignment, and the second row was validated after it
C17_Witness ==
    /\ report.done
    /\ Len(gen_in) = 2
    /\ ~gen_in[1].text.exists
    /\ gen_in[1].sits = <<[sid |-> "SIT_CCN", lbl |-> "TP", inst |-> 1],
                          [sid |-> "SIT_CCN", lbl |-> "FP", inst |-> 1]>>
    /\ Len(report.issues) = 1
    /\ report.issues[1].doc_id = <<"1">>
    /\ CountGet(report.tp_docs, "SIT_CCN") = 1
    /\ CountGet(report.docs, "SIT_CCN") = 3

-----------------------------------------------------------------------------
(* The renderer started on every combination of inputs present and missing: *)
(* config.json, the manifest, the ledger and texts of an earlier run.        *)

\* no config.json
NoConfig == [BaseConfig EXCEPT !.exists = FALSE]

\* output/meta.json holding the documents ds
SavedManifest(ds) ==
    [exists |-> TRUE, docs |-> ds,
     sit_doc_counts |-> AddDocCounts(EmptyCounts, Concat([k \in 1..Len(ds) |-> ds[k].sits])),
     sit_instance_counts |->
         AddInstanceCounts(EmptyCounts, Concat([k \in 1..Len(ds) |-> ds[k].sits]))]

\* output/files/ as an earlier run over ds left it
SampleFiles(ds) ==
    WriteTexts(NoFiles, ds,
               RenderedTexts(ds, CHOOSE c \in CallDraws(BaseConfig, ds) : TRUE,
                             CHOOSE f \in FakeDraws(BaseConfig, ds) : TRUE,
                             CHOOSE now \in Clock : TRUE))

InitRenderStart ==
    /\ stage = "idle"
    /\ config \in {BaseConfig, NoConfig}
    /\ doc_id = 0
    /\ sit_doc_counts = EmptyCounts
    /\ sit_instance_counts = EmptyCounts
    /\ docs = <<>>
    /\ meta_json \in {NoMetaJson} \cup {SavedManifest(ds) : ds \in SampleManifests}
    /\ mapping_csv \in SampleLedgers
    /\ mapping_xlsx = NoMappingCsv
    /\ out_files \in {SampleFiles(ds) : ds \in {<<>>, <<SampleDoc(1, 30)>>}}
    /\ runs = MaxRuns - 1
    /\ gen_in = <<>>
    /\ gen_out = <<>>
    /\ report = NoReport

SpecRenderStart == InitRenderStart /\ [][RenderStage]_vars

\* C18: if config.json or the manifest output/meta.json is missing when the
\* renderer starts, the run stops before any generation: no text file is
\* written and the mapping ledger is left exactly as it was.
C18_MissingInputAbortsRender ==
    [][(/\ AtShell
        /\ runs' = runs + 1
        /\ ~config.exists \/ ~meta_json.exists)
          => /\ out_files' = out_files
             /\ mapping_csv' = mapping_csv
             /\ stage' = "render_skipped"]_vars

\* a run has stopped for the missing config.json with the manifest, a ledger
\* and a text of an earlier run in place
C18_Witness ==
    /\ stage = "render_skipped"
    /\ ~config.exists
    /\ meta_json.exists /\ meta_json.docs # <<>>
    /\ mapping_csv.exists /\ mapping_csv.rows # <<>>
    /\ out_files # NoFiles

-----------------------------------------------------------------------------
(* The planner's selection and its counters, step by step.                  *)

\* the category ids of a plan, in the order of its assignments
ChosenIds(plan) == [i \in 1..Len(plan.sits) |-> plan.sits[i].sit_id]

\* a comes before b in the order by coverage count, ties in catalog order
LessServed(a, b) ==
    LET keys == sit_by_id_keys(config)
        at(x) == CHOOSE i \in 1..Len(keys) : keys[i] = x
    IN  \/ CountGet(sit_doc_counts, a) < CountGet(sit_doc_counts, b)
        \/ /\ CountGet(sit_doc_counts, a) = CountGet(sit_doc_counts, b)
           /\ at(a) < at(b)

\* C19: least-served-first selection: in every planner iteration, with n the
\* drawn category count and N the size of the catalog, the categories chosen
\* are the first min(n, N) of the catalog ordered ascending by the current
\* coverage count (a category never counted as 0, ties in catalog order), so
\* every chosen category has a count <= that of every category not chosen.
C19_LeastServedFirst ==
    [][(stage = "plan_loop" /\ Len(docs') = Len(docs) + 1)
          => LET chosen == ChosenIds(docs'[Len(docs')])
                 keys == sit_by_id_keys(config)
                 rest == Range(keys) \ Range(chosen)
             IN  /\ Range(chosen) \subseteq Range(keys)
                 /\ \E n \in NSitsDraws(config) :
                       Len(chosen) = Min2(n, Len(keys))
                 /\ \A i, j \in 1..Len(chosen) :
                       i < j => LessServed(chosen[i], chosen[j])
                 /\ \A i \in 1..Len(chosen) :
                       \A o \in rest :
                          /\ LessServed(chosen[i], o)
                          /\ CountGet(sit_doc_counts, chosen[i])
                                <= CountGet(sit_doc_counts, o)]_vars

\* the second plan assigns only the second category of the catalog: the
\* first had been served by the first plan
C19_Witness ==
    /\ Len(sit_by_id_keys(config)) = 2
    /\ Len(docs) >= 2
    /\ ChosenIds(docs[1]) = <<sit_by_id_keys(config)[1]>>
    /\ ChosenIds(docs[2]) = <<sit_by_id_keys(config)[2]>>

\* the sum of the instance counts of the assignments of sid in the plans ds
InstancesAssigned(ds, sid) ==
    SumSeq([k \in 1..Len(ds) |->
               SumSeq([i \in 1..Len(ds[k].sits) |->
                          IF ds[k].sits[i].sit_id = sid
                          THEN ds[k].sits[i].instances ELSE 0])])

\* every id a counter or the catalog knows
CountedIds ==
    DOMAIN sit_doc_counts \cup DOMAIN sit_instance_counts \cup CatalogKeys

\* C20: at every iteration boundary of the planner loop the coverage counters
\* agree with the plans emitted so far: for each category the document count
\* is the number of emitted plans that assign it and the instance sum is the
\* sum of the instance counts of those assignments; and no counter ever
\* decreases while the planner runs.
C20_CountersAgreeWithPlans ==
    /\ [](stage \in {"plan_loop", "plan_exit"}
            => \A sid \in CountedIds :
                  /\ CountGet(sit_doc_counts, sid) = PlansAssigning(docs, sid)
                  /\ CountGet(sit_instance_counts, sid)
                        = InstancesAssigned(docs, sid))
    /\ [][stage = "plan_loop"
            => \A sid \in CountedIds :
                  /\ CountGet(sit_doc_counts', sid) >= CountGet(sit_doc_counts, sid)
                  /\ CountGet(sit_instance_counts', sid)
                        >= CountGet(sit_instance_counts, sid)]_vars

\* two plans have assigned a category, with more than one instance each time
C20_Witness ==
    /\ stage = "plan_loop"
    /\ \E sid \in CatalogKeys :
          /\ CountGet(sit_doc_counts, sid) = 2
          /\ CountGet(sit_instance_counts, sid) >= 6

\* the document counts of the catalog's categories, a category never counted
\* as 0
CatalogCounts == {CountGet(sit_doc_counts, sid) : sid \in CatalogKeys}

\* C21: the planner keeps coverage balanced: at every iteration boundary of
\* the planner loop, whatever category counts were drawn, the largest and
\* the smallest document count over the categories of the catalog (a
\* category never counted as 0) differ by at most 1.
C21_CoverageBalanced ==
    stage \in {"plan_loop", "plan_exit"}
       => \A a, b \in CatalogCounts : a - b <= 1

\* the loop is running with one category served twice and the other once
C21_Witness ==
    /\ stage = "plan_loop"
    /\ Len(docs) = 3
    /\ CatalogCounts = {1, 2}

\* C22 (as claimed): for every category id registered in SIT_GENERATORS,
\* every value generate_sit_value returns for label TP is classified as not
\* placeholder-like by is_placeholder, so that it counts toward the matches
\* a TP assignment requires.
C22_RegisteredTpValueIsReal ==
    (gen_in.sit_id \in RegisteredIds /\ gen_in.label = "TP")
       => \A i \in 1..Len(gen_out) : ~is_placeholder(gen_out[i])

-----------------------------------------------------------------------------
(* The last three runs of a session: Plan, Render, Validate, started on what *)
(* the earlier runs of the session left in output/.                          *)

\* output/ after Plan and Render over the documents ds
RenderedOutput(ds) ==
    [meta |-> SavedManifest(ds),
     csv |-> MergeIntoLedger(PlanCsv(ds, CHOOSE o \in TagOrders : TRUE),
                             SampleRows(ds)),
     xlsx |-> NoMappingCsv,
     files |-> SampleFiles(ds)]

\* output/ after Plan, Render and Postprocess over the documents ds
PostprocessedOutput(ds) ==
    LET before == RenderedOutput(ds)
        df0 == AddPostCols(AsTypeInt(ReadCsv(before.csv)), 1)
        df == ProcessRows(df0, df0, ds, before.files,
                          CHOOSE now \in Clock : TRUE, 1)
    IN  [meta |-> before.meta,
         csv |-> ToCsv(df),
         xlsx |-> ToCsv(df),
         files |-> WriteArtifacts(before.files,
                                  AllArtifacts(df0, ds, before.files))]

\* the manifests an earlier Plan can have saved: doc_ids 1, 2, ... in order
EarlierManifests ==
    {ds \in SampleManifests :
        ds # <<>> /\ \A k \in 1..Len(ds) : ds[k].doc_id = k}

\* what earlier completed runs can have left: nothing, a rendered manifest,
\* a postprocessed one
EarlierOutputs ==
    {[meta |-> NoMetaJson, csv |-> NoMappingCsv, xlsx |-> NoMappingCsv,
      files |-> NoFiles]}
       \cup {RenderedOutput(ds) : ds \in EarlierManifests}
       \cup {PostprocessedOutput(ds) : ds \in EarlierManifests}

InitLastRuns ==
    /\ stage = "idle"
    /\ config \in LedgerConfigs
    /\ doc_id = 0
    /\ sit_doc_counts = EmptyCounts
    /\ sit_instance_counts = EmptyCounts
    /\ docs = <<>>
    /\ \E o \in EarlierOutputs :
          /\ meta_json = o.meta
          /\ mapping_csv = o.csv
          /\ mapping_xlsx = o.xlsx
          /\ out_files = o.files
    /\ runs = MaxRuns - 3
    /\ gen_in = <<>>
    /\ gen_out = <<>>
    /\ report = NoReport

\* Plan, then Render, then Validate, each once
NextLastRuns ==
    \/ stage = "idle" /\ PlanStart
    \/ PlanIterate
    \/ PlanBreak
    \/ PlanSave
    \/ stage = "plan_done" /\ RenderStage
    \/ stage = "rendered" /\ ValidateStage

SpecLastRuns == InitLastRuns /\ [][NextLastRuns]_vars

\* the cells of the rows the validator loads that name assignments
LoadedAssignments ==
    {[doc_id |-> r["doc_id"], sit_ids |-> r["sit_ids"], labels |-> r["labels"],
      instances |-> r["instances"]] :
        r \in Range(MappingToValidate.rows)}

\* the same cells of the manifest's documents
ManifestAssignments ==
    {[doc_id |-> IntToStr(d.doc_id),
      sit_ids |-> JoinSits([i \in 1..Len(d.sits) |-> <<d.sits[i].sit_id>>]),
      labels |-> JoinSits([i \in 1..Len(d.sits) |-> <<d.sits[i].label>>]),
      instances |->
          JoinSits([i \in 1..Len(d.sits) |-> IntToStr(d.sits[i].instances)])] :
        d \in Range(meta_json.docs)}

\* C23 (as claimed): in every sequence of completed runs that ends with
\* Plan, Render, Validate, whatever runs came before, the rows the validator
\* evaluates are those of the ledger the last Plan and Render wrote: the
\* doc_ids validated are the doc_ids of the latest manifest, with that
\* manifest's categories, labels and instance counts.
C23_ValidatesLatestLedger ==
    stage = "validated"
       => /\ LoadedAssignments = ManifestAssignments
          /\ \A sid \in CatalogKeys :
                /\ CountGet(report.docs, sid)
                      = PlansAssigning(meta_json.docs, sid)
                /\ CountGet(report.total_instances, sid)
                      = InstancesAssigned(meta_json.docs, sid)

=============================================================================
